---- MODULE Spec2Model ----
(***************************************************************************)
(* Booking workflow of the CaptureCloud agent                              *)
(* (src/app/agents/boockingAssistant.py) together with the tool gateway    *)
(* it calls (src/app/service/mcp_client.py).                               *)
(*                                                                         *)
(* Python strings that the code inspects (names, messages, locations, LLM  *)
(* completions) are sequences of one-character strings, so that lower(),   *)
(* strip(), split(), title(), the substring test and the regular           *)
(* expression are computed, not assumed.  Python dicts are records whose   *)
(* DOMAIN is the set of keys present.                                      *)
(***************************************************************************)
EXTENDS Integers, Sequences, FiniteSets, TLC

\* Number of consecutive calls a caller makes with one session dict.
MaxTurns == 2

\* the longest requested name tried on the name lookup
MaxNameLen == 3

\* the highest rating, in tenths, tried on the match score
MaxRating == 60

\* the calls of SessionManager methods started in a behaviour
MaxOps == 3

\* the clock readings, in minutes, a behaviour runs through
MaxClock == 2

\* session_timeout_minutes the SessionManager is constructed with
TimeoutMinutes == 1

\* the calls of get_session_manager started in a behaviour
MaxGets == 3

\* the messages added through the handles in a behaviour
MaxAdds == 2

EmptyDict == [k \in {} |-> TRUE]

HasKey(d, k) == k \in DOMAIN d

\* a plausible slip: the dict is rebuilt from the new entries alone
Update_Rebuild(d, new) == new

\* dict.update(new): keys of new win, the other keys of d stay
Update(d, new) == new @@ d

-----------------------------------------------------------------------------
(* Python str methods                                                      *)

LowerChar(c) == IF c = "A" THEN "a" ELSE IF c = "B" THEN "b" ELSE c

UpperChar(c) == IF c = "a" THEN "A" ELSE IF c = "b" THEN "B" ELSE c

IsSpace(c) == c = " "

IsCased(c) == c \in {"a", "b", "A", "B"}

\* str.lower()
Lower(s) == [i \in 1..Len(s) |-> LowerChar(s[i])]

RECURSIVE LStrip(_)
LStrip(s) == IF s # <<>> /\ IsSpace(Head(s)) THEN LStrip(Tail(s)) ELSE s

RECURSIVE RStrip(_)
RStrip(s) ==
    IF s # <<>> /\ IsSpace(s[Len(s)]) THEN RStrip(SubSeq(s, 1, Len(s) - 1)) ELSE s

\* str.strip()
Strip(s) == RStrip(LStrip(s))

\* str.title(): a cased character is upper-cased after an uncased one (or at
\* the start) and lower-cased after a cased one
Title(s) ==
    [i \in 1..Len(s) |->
        IF i = 1 \/ ~IsCased(s[i - 1]) THEN UpperChar(s[i]) ELSE LowerChar(s[i])]

\* the first whitespace-free word of s (s starts with a non-space)
RECURSIVE FirstWord(_)
FirstWord(s) ==
    IF s = <<>> \/ IsSpace(Head(s)) THEN <<>> ELSE <<Head(s)>> \o FirstWord(Tail(s))

\* str.split(): the maximal whitespace-free words, in order
RECURSIVE Split(_)
Split(s) ==
    LET t == LStrip(s)
        w == FirstWord(t)
    IN  IF t = <<>> THEN <<>>
        ELSE <<w>> \o Split(SubSeq(t, Len(w) + 1, Len(t)))

\* sub in s
Contains(sub, s) ==
    \E i \in 0..(Len(s) - Len(sub)) : SubSeq(s, i + 1, i + Len(sub)) = sub

\* f"{a} {b}"
Join2(a, b) == a \o <<" ">> \o b

-----------------------------------------------------------------------------
(* The data store: rows of photographers joined with users and packages    *)

Pkg(id, name, price, active) ==
    [id |-> id, name |-> name, price |-> price, is_active |-> active]

Row(id, first, last, loc, rating, active, pkgs) ==
    [id |-> id, portfolio_style |-> "style", location |-> loc, rating |-> rating,
     is_active |-> active,
     users |-> [first_name |-> first, last_name |-> last, email |-> "mail"],
     packages |-> pkgs]

\* Ratings are held in tenths (45 is 4.5).
Ph1 == Row("p1", <<"A", "b">>, <<"B", "a">>, <<"a">>, 45, TRUE,
           <<Pkg("k1", "n1", 300, TRUE), Pkg("k2", "n2", 100, TRUE)>>)

Ph2 == Row("p2", <<"a", "b">>, <<"b", "b">>, <<"b">>, 30, TRUE,
           <<Pkg("k3", "n3", 200, TRUE), Pkg("k4", "n4", 50, FALSE)>>)

\* active photographer whose packages are all inactive
Ph3 == Row("p3", <<"b", "b">>, <<"a", "a">>, <<"a">>, 50, TRUE,
           <<Pkg("k5", "n5", 80, FALSE)>>)

\* inactive photographer with an active package
Ph4 == Row("p4", <<"b", "b">>, <<"b">>, <<"a">>, 40, FALSE,
           <<Pkg("k6", "n6", 60, TRUE)>>)

\* What the data store can hold when a query reaches it, and a store that
\* cannot be queried (the client is None or execute() raises).
DataStores ==
    { [fails |-> FALSE, rows |-> <<>>],
      [fails |-> FALSE, rows |-> <<Ph1>>],
      [fails |-> FALSE, rows |-> <<Ph1, Ph2>>],
      [fails |-> FALSE, rows |-> <<Ph2, Ph3, Ph4>>],
      [fails |-> FALSE, rows |-> <<Ph3, Ph4>>],
      [fails |-> TRUE, rows |-> <<Ph1, Ph2>>] }

\* .eq("is_active", True).execute().data
QueryActivePhotographers(db) == SelectSeq(db.rows, LAMBDA r : r.is_active)

\* [pkg for pkg in photographer.get("packages", []) if pkg.get("is_active")]
ActivePackages(row) == SelectSeq(row.packages, LAMBDA p : p.is_active)

RECURSIVE MinPrice(_)
MinPrice(pkgs) ==
    IF Len(pkgs) = 1 THEN pkgs[1].price
    ELSE LET m == MinPrice(Tail(pkgs))
         IN  IF pkgs[1].price <= m THEN pkgs[1].price ELSE m

RECURSIVE MaxPrice(_)
MaxPrice(pkgs) ==
    IF Len(pkgs) = 1 THEN pkgs[1].price
    ELSE LET m == MaxPrice(Tail(pkgs))
         IN  IF pkgs[1].price >= m THEN pkgs[1].price ELSE m

\* full_name = f"{first_name} {last_name}".strip(), both lower-cased
FullName(row) == Strip(Join2(Lower(row.users.first_name), Lower(row.users.last_name)))

\* the condition of the if in _find_photographers_by_name
NameMatches(name, row) ==
    LET name_parts == Split(Lower(name))
        first_name == Lower(row.users.first_name)
        last_name  == Lower(row.users.last_name)
        full_name  == FullName(row)
    IN  \/ Lower(name) = full_name
        \/ \E i \in 1..Len(name_parts) : Contains(name_parts[i], full_name)
        \/ Len(name_parts) = 1 /\ name_parts[1] \in {first_name, last_name}

\* the dict appended to matches: it has no portfolio_style key
MatchOf(row) ==
    [id |-> row.id, name |-> Title(FullName(row)), email |-> row.users.email,
     location |-> row.location, rating |-> row.rating,
     packages |-> ActivePackages(row),
     min_price |-> MinPrice(ActivePackages(row)),
     max_price |-> MaxPrice(ActivePackages(row))]

RECURSIVE MatchesIn(_, _)
MatchesIn(name, rows) ==
    IF rows = <<>> THEN <<>>
    ELSE (IF NameMatches(name, Head(rows)) /\ ActivePackages(Head(rows)) # <<>>
          THEN <<MatchOf(Head(rows))>> ELSE <<>>) \o MatchesIn(name, Tail(rows))

\* a plausible slip: the active-package filter is dropped
FindPhotographersByName_NoPackageFilter(name, db) ==
    LET Keep(r) == NameMatches(name, r)
        AsMatch(r) == [id |-> r.id, name |-> Title(FullName(r)),
                       email |-> r.users.email, location |-> r.location,
                       rating |-> r.rating, packages |-> r.packages,
                       min_price |-> MinPrice(r.packages),
                       max_price |-> MaxPrice(r.packages)]
        rows == SelectSeq(QueryActivePhotographers(db), Keep)
    IN  IF db.fails THEN <<>> ELSE [i \in 1..Len(rows) |-> AsMatch(rows[i])]

\* _find_photographers_by_name: any exception of the query gives []
FindPhotographersByName(name, db) ==
    IF db.fails THEN <<>> ELSE MatchesIn(name, QueryActivePhotographers(db))

-----------------------------------------------------------------------------
(* Scoring and the recommendation list                                     *)

\* A score is the fraction num/den (den > 0): the price position divides by
\* the pool's price spread and the rating, held in tenths, by 50.
Frac(n, d) == [num |-> n, den |-> d]

FracLess(a, b) == a.num * b.den < b.num * a.den

FracAtLeast(a, n) == a.num >= n * a.den

\* req_location in photo_location or photo_location in req_location, both
\* non-empty and lower-cased
LocationMatches(row, requirements) ==
    LET req_location == IF HasKey(requirements, "location")
                        THEN Lower(requirements.location) ELSE <<>>
        photo_location == Lower(row.location)
    IN  /\ req_location # <<>>
        /\ photo_location # <<>>
        /\ Contains(req_location, photo_location) \/ Contains(photo_location, req_location)

\* a plausible slip: the sum is returned without min(score, 100)
CalculateMatchScore_Uncapped(row, requirements, photographer_min_price, pool_min_price, pool_max_price) ==
    LET spread == pool_max_price - pool_min_price
        den    == IF spread > 0 THEN 5 * spread ELSE 5
        unit   == IF spread > 0 THEN spread ELSE 1
    IN  Frac(6 * row.rating * unit
             + (IF spread > 0 THEN 50 * (pool_max_price - photographer_min_price) ELSE 25)
             + (IF LocationMatches(row, requirements) THEN 20 * den ELSE 0)
             + (IF row.packages # <<>> THEN 10 * den ELSE 0),
             den)

\* _calculate_match_score_with_price_context, as a fraction over 5 * spread
CalculateMatchScore(row, requirements, photographer_min_price, pool_min_price, pool_max_price) ==
    LET spread == pool_max_price - pool_min_price
        den    == IF spread > 0 THEN 5 * spread ELSE 5
        unit   == IF spread > 0 THEN spread ELSE 1
        rating_part == 6 * row.rating * unit
        price_part  == IF spread > 0
                       THEN 50 * (pool_max_price - photographer_min_price)
                       ELSE 25
        location_part == IF LocationMatches(row, requirements) THEN 20 * den ELSE 0
        package_part  == IF row.packages # <<>> THEN 10 * den ELSE 0
        total == rating_part + price_part + location_part + package_part
    IN  Frac(IF total > 100 * den THEN 100 * den ELSE total, den)

\* a plausible slip: the 20% band is tested before the equality
GenerateMatchReason_BandFirst(row, requirements, score, photographer_price, pool_min_price) ==
    (IF FracAtLeast(score, 80) THEN <<"Excellent match">>
     ELSE IF FracAtLeast(score, 60) THEN <<"Good match">>
     ELSE <<"Potential match">>)
    \o (IF row.rating >= 45 THEN <<"highly rated">> ELSE <<>>)
    \o (IF photographer_price > 0 /\ pool_min_price > 0
        THEN IF 10 * photographer_price <= 12 * pool_min_price THEN <<"great value">>
             ELSE IF photographer_price = pool_min_price THEN <<"lowest price">>
             ELSE IF 10 * photographer_price <= 15 * pool_min_price
                  THEN <<"competitive pricing">>
             ELSE <<>>
        ELSE <<>>)
    \o (IF LocationMatches(row, requirements) THEN <<"local photographer">> ELSE <<>>)

\* _generate_match_reason: the reasons, in order (joined with ", " in the code)
GenerateMatchReason(row, requirements, score, photographer_price, pool_min_price) ==
    (IF FracAtLeast(score, 80) THEN <<"Excellent match">>
     ELSE IF FracAtLeast(score, 60) THEN <<"Good match">>
     ELSE <<"Potential match">>)
    \o (IF row.rating >= 45 THEN <<"highly rated">> ELSE <<>>)
    \o (IF photographer_price > 0 /\ pool_min_price > 0
        THEN IF photographer_price = pool_min_price THEN <<"lowest price">>
             ELSE IF 10 * photographer_price <= 12 * pool_min_price THEN <<"great value">>
             ELSE IF 10 * photographer_price <= 15 * pool_min_price
                  THEN <<"competitive pricing">>
             ELSE <<>>
        ELSE <<>>)
    \o (IF LocationMatches(row, requirements) THEN <<"local photographer">> ELSE <<>>)

\* list.sort(key=match_score, reverse=True): stable, descending
RECURSIVE InsertByScore(_, _)
InsertByScore(x, sorted) ==
    IF sorted = <<>> THEN <<x>>
    ELSE IF FracLess(Head(sorted).match_score, x.match_score)
         THEN <<x>> \o sorted
         ELSE <<Head(sorted)>> \o InsertByScore(x, Tail(sorted))

RECURSIVE SortByScore(_)
SortByScore(s) ==
    IF s = <<>> THEN <<>>
    ELSE InsertByScore(s[Len(s)], SortByScore(SubSeq(s, 1, Len(s) - 1)))

FirstN(s, n) == SubSeq(s, 1, IF Len(s) < n THEN Len(s) ELSE n)

RECURSIVE MinOf(_)
MinOf(s) ==
    IF Len(s) = 1 THEN s[1]
    ELSE LET m == MinOf(Tail(s)) IN IF s[1] <= m THEN s[1] ELSE m

RECURSIVE MaxOf(_)
MaxOf(s) ==
    IF Len(s) = 1 THEN s[1]
    ELSE LET m == MaxOf(Tail(s)) IN IF s[1] >= m THEN s[1] ELSE m

\* the recommendations without the try/except around the query: what the
\* rows of a store would give whether or not the query succeeds
GetPhotographerRecommendations_QueryNotGuarded(requirements, db) ==
    LET valid == SelectSeq(QueryActivePhotographers(db),
                           LAMBDA r : ActivePackages(r) # <<>>)
        prices == [i \in 1..Len(valid) |-> MinPrice(ActivePackages(valid[i]))]
        Rec(r) ==
            [id |-> r.id, name |-> Title(Strip(Join2(r.users.first_name, r.users.last_name))),
             email |-> r.users.email, location |-> r.location, rating |-> r.rating,
             packages |-> ActivePackages(r),
             min_price |-> MinPrice(ActivePackages(r)),
             max_price |-> MaxPrice(ActivePackages(r)),
             match_score |-> CalculateMatchScore(r, requirements,
                                 MinPrice(ActivePackages(r)), MinOf(prices), MaxOf(prices)),
             match_reason |-> <<>>]
    IN  IF valid = <<>> THEN <<>>
        ELSE FirstN(SortByScore([i \in 1..Len(valid) |-> Rec(valid[i])]), 10)

\* _get_photographer_recommendations: any exception of the query gives []
GetPhotographerRecommendations(requirements, db) ==
    LET valid == SelectSeq(QueryActivePhotographers(db),
                           LAMBDA r : ActivePackages(r) # <<>>)
        prices == [i \in 1..Len(valid) |-> MinPrice(ActivePackages(valid[i]))]
        min_price_in_pool == MinOf(prices)
        max_price_in_pool == MaxOf(prices)
        Score(r) == CalculateMatchScore(r, requirements, MinPrice(ActivePackages(r)),
                                        min_price_in_pool, max_price_in_pool)
        Rec(r) ==
            [id |-> r.id,
             name |-> Title(Strip(Join2(r.users.first_name, r.users.last_name))),
             email |-> r.users.email, location |-> r.location, rating |-> r.rating,
             packages |-> ActivePackages(r),
             min_price |-> MinPrice(ActivePackages(r)),
             max_price |-> MaxPrice(ActivePackages(r)),
             match_score |-> Score(r),
             match_reason |-> GenerateMatchReason(r, requirements, Score(r),
                                  MinPrice(ActivePackages(r)), min_price_in_pool)]
        scored == SelectSeq(valid, LAMBDA r : Score(r).num > 0)
    IN  IF db.fails \/ valid = <<>> THEN <<>>
        ELSE FirstN(SortByScore([i \in 1..Len(scored) |-> Rec(scored[i])]), 10)

-----------------------------------------------------------------------------
(* The tool gateway, service/mcp_client.py                                 *)

BaseUrls == {"availability", "weather", "search"}

\* What an HTTP exchange with a tool server can do.
AvailabilityHttp ==
    { [kind |-> "reply", status |-> 200, json |-> [available |-> TRUE]],
      [kind |-> "reply", status |-> 200,
       json |-> [available |-> FALSE, reason |-> "already booked"]],
      [kind |-> "reply", status |-> 200, json |-> [available |-> FALSE]],
      [kind |-> "reply", status |-> 500],
      [kind |-> "timeout"],
      [kind |-> "exception"] }

WeatherHttp ==
    { [kind |-> "reply", status |-> 200,
       json |-> [condition |-> "sunny", good_for_outdoor_shoot |-> TRUE]],
      [kind |-> "reply", status |-> 200,
       json |-> [condition |-> "rain", good_for_outdoor_shoot |-> FALSE]],
      [kind |-> "reply", status |-> 500],
      [kind |-> "timeout"],
      [kind |-> "exception"] }

\* MCPClient._make_request: the JSON of a 200 reply, else an error payload
MakeRequest(server, http) ==
    IF server \notin BaseUrls THEN [error |-> "Unknown MCP server"]
    ELSE IF http.kind = "reply"
         THEN IF http.status = 200
              THEN IF HasKey(http, "json") THEN http.json
                   ELSE [error |-> "Connection failed"]   \* response.json() raises
              ELSE [error |-> "HTTP status", message |-> "text"]
    ELSE IF http.kind = "timeout" THEN [error |-> "Timeout connecting"]
    ELSE [error |-> "Connection failed"]

CheckAvailability(http) == MakeRequest("availability", http)

GetWeatherForecast(http) == MakeRequest("weather", http)

-----------------------------------------------------------------------------
(* Booking creation, _create_booking                                       *)

\* What the POST to the booking endpoint can do: 200 with a JSON body, 200
\* with a body that is not JSON, another status, a timeout, a transport error.
BookingHttp ==
    { [kind |-> "reply", status |-> 200, is_json |-> TRUE,
       json |-> [id |-> "b1", status |-> "pending"]],
      [kind |-> "reply", status |-> 200, is_json |-> FALSE],
      [kind |-> "reply", status |-> 500, is_json |-> FALSE],
      [kind |-> "timeout"],
      [kind |-> "exception"] }

\* if shoot_date:
HasShootDate(requirements) ==
    HasKey(requirements, "shoot_date") /\ requirements.shoot_date # ""

\* if location and shoot_date and requirements.get("outdoor", False):
WantsWeather(requirements) ==
    /\ HasKey(requirements, "location") /\ requirements.location # <<>>
    /\ HasShootDate(requirements)
    /\ HasKey(requirements, "outdoor") /\ requirements.outdoor

\* a plausible slip: the first package instead of the cheapest
SelectPackage_First(packages) == packages[1]

\* min(packages, key=lambda x: x["price"]): the first of the cheapest
SelectPackage(packages) ==
    packages[CHOOSE i \in 1..Len(packages) :
                /\ \A j \in 1..Len(packages) : packages[i].price <= packages[j].price
                /\ \A j \in 1..(i - 1) : packages[j].price > packages[i].price]

\* not availability_result.get("available", True)
AvailabilityBlocks(availability_result) ==
    ~(IF HasKey(availability_result, "available")
      THEN availability_result.available ELSE TRUE)

\* the weather_warning dict built from the forecast
WeatherWarning(weather_result) ==
    IF ~(IF HasKey(weather_result, "good_for_outdoor_shoot")
         THEN weather_result.good_for_outdoor_shoot ELSE TRUE)
    THEN [weather_warning |-> TRUE, weather_info |-> weather_result,
          recommendation |-> "Consider indoor backup or rescheduling"]
    ELSE [weather_info |-> weather_result,
          weather_status |-> "Good conditions expected!"]

BookingCreated(photographer, selected_package, weather_warning, http) ==
    Update([success |-> TRUE, type |-> "booking_created",
            message |-> "sent a booking request",
            booking_details |->
                [booking_id |-> http.json.id,
                 photographer_name |-> photographer.name,
                 package_name |-> selected_package.name,
                 price |-> selected_package.price,
                 status |-> "pending_photographer_approval"],
            next_steps |-> "will respond within 24 hours"],
           weather_warning)

BackendError ==
    [success |-> FALSE, type |-> "backend_error",
     message |-> "couldn't create the booking"]

ConnectionError ==
    [success |-> FALSE, type |-> "connection_error",
     message |-> "couldn't connect to our booking system"]

\* a plausible slip: every failed creation is reported as connection_error
BookingResponse_OneFailureType(photographer, selected_package, weather_warning, http) ==
    IF http.kind = "reply" /\ http.status = 200 /\ http.is_json
    THEN BookingCreated(photographer, selected_package, weather_warning, http)
    ELSE ConnectionError

\* a plausible slip: a weather warning turns the booking into a failure
BookingResponse_WeatherBlocks(photographer, selected_package, weather_warning, http) ==
    IF HasKey(weather_warning, "weather_warning")
    THEN [success |-> FALSE, type |-> "bad_weather", message |-> "bad weather"]
    ELSE IF http.kind = "reply"
         THEN IF http.status = 200
              THEN IF http.is_json
                   THEN BookingCreated(photographer, selected_package, weather_warning, http)
                   ELSE ConnectionError
              ELSE BackendError
         ELSE ConnectionError

\* the try block around the POST: 200 gives booking_created plus the weather
\* fields, another status backend_error, any exception (timeout, transport,
\* response.json() failing) connection_error
BookingResponse(photographer, selected_package, weather_warning, http) ==
    IF http.kind = "reply"
    THEN IF http.status = 200
         THEN IF http.is_json
              THEN BookingCreated(photographer, selected_package, weather_warning, http)
              ELSE ConnectionError
         ELSE BackendError
    ELSE ConnectionError

\* BookingWorkflowService._create_backend_booking (service/booking_workflow.py)
CreateBackendBooking(client_id, photographer_id, package_id, requirements, http) ==
    IF http.kind = "reply"
    THEN IF http.status = 200
         THEN IF http.is_json
              THEN [success |-> TRUE, booking_id |-> http.json.id,
                    status |-> http.json.status]
              ELSE [success |-> FALSE, type |-> "connection_error",
                    message |-> "Could not connect to booking backend."]
         ELSE [success |-> FALSE, type |-> "backend_error",
               message |-> "Could not create booking in backend system."]
    ELSE [success |-> FALSE, type |-> "connection_error",
          message |-> "Could not connect to booking backend."]

\* the records of the external calls: what was asked, what the server did
\* (outcome) and what the caller got back (result)
AvailabilityCall(photographer, shoot_date, http, result) ==
    [svc |-> "availability", photographer_id |-> photographer.id,
     date |-> shoot_date, outcome |-> http, result |-> result]

WeatherCall(requirements, http, result) ==
    [svc |-> "weather", location |-> requirements.location,
     date |-> requirements.shoot_date, outcome |-> http, result |-> result]

BookingCall(booking_request, http) ==
    [svc |-> "booking", request |-> booking_request, outcome |-> http]

\* _create_booking: the response, and the external calls made, in order
CreateBooking(photographer, requirements, client_id, av_http, w_http, b_http) ==
    LET packages == photographer.packages
        selected_package == SelectPackage(packages)
        availability_result == CheckAvailability(av_http)
        av_calls == IF HasShootDate(requirements)
                    THEN <<AvailabilityCall(photographer, requirements.shoot_date,
                                            av_http, availability_result)>>
                    ELSE <<>>
        weather_result == GetWeatherForecast(w_http)
        w_calls == IF WantsWeather(requirements)
                   THEN <<WeatherCall(requirements, w_http, weather_result)>> ELSE <<>>
        weather_warning == IF WantsWeather(requirements)
                           THEN WeatherWarning(weather_result) ELSE EmptyDict
        booking_request ==
            [client_id |-> client_id, photographer_id |-> photographer.id,
             package_id |-> selected_package.id, requirements |-> requirements,
             status |-> "pending_photographer_approval"]
    IN  IF packages = <<>>
        THEN [response |-> [success |-> FALSE, type |-> "no_packages",
                            message |-> "doesn't have any active packages"],
              calls |-> <<>>]
        ELSE IF HasShootDate(requirements) /\ AvailabilityBlocks(availability_result)
        THEN [response |->
                [success |-> FALSE, type |-> "not_available",
                 message |-> "is not available on that date",
                 reason |-> IF HasKey(availability_result, "reason")
                            THEN availability_result.reason ELSE "Unavailable"],
              calls |-> av_calls]
        ELSE [response |-> BookingResponse(photographer, selected_package,
                                           weather_warning, b_http),
              calls |-> av_calls \o w_calls
                        \o <<BookingCall(booking_request, b_http)>>]

-----------------------------------------------------------------------------
(* analyze_intent                                                          *)

\* An LLM completion is a sequence of tokens: "{", "}", the backslash, "J"
\* (the members of the JSON object, whose parsed value is the payload) and
\* "t" (other text).
Requirements ==
    { EmptyDict,
      [shoot_date |-> "2024-12-15"],
      [shoot_date |-> "2024-12-15", location |-> <<"a">>, outdoor |-> TRUE],
      [shoot_date |-> "2024-12-15", location |-> <<"a">>, outdoor |-> FALSE],
      [shoot_date |-> "2024-12-15", outdoor |-> TRUE],
      [location |-> <<"a">>, outdoor |-> TRUE],
      [shoot_date |-> "", location |-> <<"a">>, outdoor |-> TRUE] }

RequestedNames ==
    { <<"1">>, <<"b", "b">>, <<"A", "b", " ", "B", "a">>, <<"a", "b">> }

Payloads ==
    { [type |-> "direct_booking", photographer_name |-> <<"b", "b">>,
       requirements |-> [shoot_date |-> "2024-12-15"]],
      [type |-> "recommendation_request", requirements |-> EmptyDict] }

Completions ==
    { <<"{", "J", "}">>,
      <<"t", "{", "J", "}", "t">>,
      <<"\\", "{", "J", "\\", "}">>,
      <<"{", "}">>,
      <<"t">> }

LLMOutcomes ==
    {[raises |-> TRUE]}
    \cup {[raises |-> FALSE, content |-> c, payload |-> p] :
            c \in Completions, p \in Payloads}

\* re.search(r'\\{.*\\}', content, re.DOTALL): the pattern is a backslash, a
\* brace, anything (greedy), a backslash, a closing brace; the leftmost match
ReSearch(content) ==
    LET Opens(i) == content[i] = "\\" /\ content[i + 1] = "{"
        Ends(i)  == {j \in (i + 2)..(Len(content) - 1) :
                        content[j] = "\\" /\ content[j + 1] = "}"}
        starts   == {i \in 1..(Len(content) - 1) : Opens(i) /\ Ends(i) # {}}
        first    == CHOOSE i \in starts : \A k \in starts : i <= k
        last     == CHOOSE j \in Ends(first) : \A k \in Ends(first) : k <= j
    IN  IF starts = {} THEN [found |-> FALSE]
        ELSE [found |-> TRUE, group |-> SubSeq(content, first, last + 1)]

\* json.loads(text): a JSON object is "{" members "}" or "{" "}"
JsonLoads(text, payload) ==
    IF text = <<"{", "J", "}">> THEN [ok |-> TRUE, value |-> payload]
    ELSE IF text = <<"{", "}">> THEN [ok |-> TRUE, value |-> EmptyDict]
    ELSE [ok |-> FALSE]

Unclear(message) == [type |-> "unclear", original_message |-> message]

\* the intent the try block leaves in state["intent"]
ExtractIntent(message, llm) ==
    IF llm.raises THEN Unclear(message)
    ELSE LET json_match == ReSearch(llm.content)
             parsed == JsonLoads(json_match.group, llm.payload)
         IN  IF ~json_match.found THEN Unclear(message)
             ELSE IF ~parsed.ok THEN Unclear(message)
             ELSE Update(parsed.value, [original_message |-> message])

\* session_state.get("step", "initial")
SessionStep(sess) == IF HasKey(sess, "step") THEN sess.step ELSE "initial"

\* The replacement fields of the two message templates of intent_prompt, as
\* str.format parsing finds them: the braces of the JSON example in the system
\* message open a field whose name is "type" with its quotes, and the user
\* message has {message}.
IntentPromptVariables == {"\"type\"", "message"}

\* the keys of the dict given to chain.ainvoke
IntentPromptInputs == {"message"}

\* The chain formats the prompt before it asks the model: a variable of the
\* template that the input lacks raises KeyError, and the model is not asked.
PromptFormats(variables, inputs) == variables \subseteq inputs

\* analyze_intent: the new state and the external calls made
AnalyzeIntentStep(state, sess, llm) ==
    IF SessionStep(sess) = "showing_options"
    THEN [state |-> [state EXCEPT
                       !.intent = [type |-> "selection_from_options",
                                   photographer_name |-> Strip(state.message),
                                   requirements |-> EmptyDict],
                       !.current_step = "intent_analyzed"],
          calls |-> <<>>]
    ELSE IF ~PromptFormats(IntentPromptVariables, IntentPromptInputs)
    THEN [state |-> [state EXCEPT
                       !.intent = Unclear(state.message),
                       !.current_step = "intent_analyzed"],
          calls |-> <<>>]
    ELSE [state |-> [state EXCEPT
                       !.intent = ExtractIntent(state.message, llm),
                       !.current_step = "intent_analyzed"],
          calls |-> <<[svc |-> "llm"]>>]

-----------------------------------------------------------------------------
(* process_request and its three handlers                                  *)

\* a plausible slip: a selection from the options is not treated as a booking
HandlerFor_SelectionUnclear(intent_type) ==
    IF intent_type = "direct_booking" THEN "direct_booking"
    ELSE IF intent_type = "recommendation_request" THEN "recommendation"
    ELSE "unclear"

\* the if / elif / else of process_request
HandlerFor(intent_type) ==
    IF intent_type = "direct_booking" \/ intent_type = "selection_from_options"
    THEN "direct_booking"
    ELSE IF intent_type = "recommendation_request" THEN "recommendation"
    ELSE "unclear"

\* the query of the photographers table, with what the store did
DbCall(db) == [svc |-> "db", table |-> "photographers", outcome |-> db]

\* intent.get("requirements", {})
IntentRequirements(intent) ==
    IF HasKey(intent, "requirements") THEN intent.requirements ELSE EmptyDict

\* the options of the multiple_matches response; match["portfolio_style"]
\* raises KeyError when a match has no such key
MatchOption(match) ==
    [id |-> match.id, name |-> match.name, location |-> match.location,
     rating |-> match.rating, specialties |-> match.portfolio_style]

\* _handle_direct_booking_step
HandleDirectBookingStep(state, sess, db, av_http, w_http, b_http) ==
    LET intent == state.intent
        photographer_name == IF HasKey(intent, "photographer_name")
                             THEN intent.photographer_name ELSE <<>>
        matches == FindPhotographersByName(photographer_name, db)
        found == [state EXCEPT !.matches = matches]
        clarifying == Update(sess, [step |-> "clarifying_photographer",
                                    photographer_matches |-> matches,
                                    original_intent |-> intent])
        booking == CreateBooking(matches[1], IntentRequirements(intent),
                                 state.client_id, av_http, w_http, b_http)
    IN  IF matches = <<>>
        THEN [state |-> [found EXCEPT !.response =
                            [success |-> FALSE, type |-> "photographer_not_found",
                             message |-> "couldn't find a photographer",
                             suggested_action |-> "show_recommendations"]],
              session |-> sess, calls |-> <<DbCall(db)>>, raised |-> FALSE]
        ELSE IF Len(matches) > 1
        THEN IF \A i \in 1..Len(matches) : HasKey(matches[i], "portfolio_style")
             THEN [state |-> [found EXCEPT !.response =
                                [success |-> FALSE, type |-> "multiple_matches",
                                 message |-> "Which one did you mean?",
                                 options |-> [i \in 1..Len(matches) |->
                                                MatchOption(matches[i])],
                                 session_state |-> clarifying]],
                   session |-> clarifying, calls |-> <<DbCall(db)>>, raised |-> FALSE]
             ELSE [state |-> found, session |-> clarifying, calls |-> <<DbCall(db)>>,
                   raised |-> TRUE]
        ELSE [state |-> [found EXCEPT !.response = booking.response],
              session |-> sess, calls |-> <<DbCall(db)>> \o booking.calls,
              raised |-> FALSE]

\* the options of the recommendations response; rec["portfolio_style"] raises
\* KeyError when a recommendation has no such key
RecommendationOption(i, rec) ==
    [rank |-> i, id |-> rec.id, name |-> rec.name, rating |-> rec.rating,
     specialties |-> rec.portfolio_style, location |-> rec.location,
     price_range |-> <<rec.min_price, rec.max_price>>,
     match_reason |-> rec.match_reason]

\* _handle_recommendation_step
HandleRecommendationStep(state, sess, db) ==
    LET requirements == IntentRequirements(state.intent)
        recommendations == GetPhotographerRecommendations(requirements, db)
        found == [state EXCEPT !.matches = recommendations]
        showing == Update(sess, [step |-> "showing_options",
                                 recommendations |-> recommendations,
                                 original_requirements |-> requirements])
        top == FirstN(recommendations, 5)
    IN  IF recommendations = <<>>
        THEN [state |-> [found EXCEPT !.response =
                            [success |-> FALSE, type |-> "no_matches",
                             message |-> "couldn't find any photographers",
                             suggestions |-> <<"Try different dates",
                                               "Expand location", "Adjust budget">>]],
              session |-> sess, calls |-> <<DbCall(db)>>, raised |-> FALSE]
        ELSE IF \A i \in 1..Len(top) : HasKey(top[i], "portfolio_style")
        THEN [state |-> [found EXCEPT !.response =
                            [success |-> TRUE, type |-> "recommendations",
                             message |-> "Here are the top matches",
                             options |-> [i \in 1..Len(top) |->
                                            RecommendationOption(i, top[i])],
                             next_step |-> "by name or number",
                             session_state |-> showing]],
              session |-> showing, calls |-> <<DbCall(db)>>, raised |-> FALSE]
        ELSE [state |-> found, session |-> showing, calls |-> <<DbCall(db)>>,
              raised |-> TRUE]

\* a plausible slip: the handler marks the session as clarifying
HandleUnclearStep_MarksStep(state, sess) ==
    [state |-> [state EXCEPT !.response =
                  [success |-> FALSE, type |-> "need_clarification",
                   message |-> "You can either:",
                   options |-> <<"name a photographer", "describe what you need">>,
                   examples |-> <<"I want to book Sarah Johnson",
                                  "I need a wedding photographer">>]],
     session |-> Update(sess, [step |-> "clarifying"]), calls |-> <<>>,
     raised |-> FALSE]

\* _handle_unclear_step
HandleUnclearStep(state, sess) ==
    [state |-> [state EXCEPT !.response =
                  [success |-> FALSE, type |-> "need_clarification",
                   message |-> "You can either:",
                   options |-> <<"name a photographer", "describe what you need">>,
                   examples |-> <<"I want to book Sarah Johnson",
                                  "I need a wedding photographer">>]],
     session |-> sess, calls |-> <<>>, raised |-> FALSE]

-----------------------------------------------------------------------------
(* The state machine                                                       *)

\* None
PyNone == [py_none |-> TRUE]

VARIABLES
    pc,             \* where the current call is: idle, analyze_intent,
                    \* process_request, finalize_response, return, done, raised
    turn,           \* calls started so far with this session dict
    entry,          \* the method the caller invoked
    state,          \* the BookingState dict threaded through the stages
    session_state,  \* the caller's session dict, which state["session_state"]
                    \* aliases: the handlers update it in place
    session_in,     \* session_state as it was when the call started
    calls,          \* external calls of this call, in order, with their results
    stages,         \* stages entered in this call, in order
    handlers,       \* handlers run in this call, in order
    returned        \* what handle_booking_request returned

bookingVars == <<pc, turn, entry, state, session_state, session_in, calls, stages,
                 handlers, returned>>

\* A helper of the assistant called on its own, outside a run.
VARIABLES
    applied,        \* the helper called last, with its arguments
    fn_result       \* what that call returned

functionVars == <<applied, fn_result>>

\* A call of one of the two tool-gateway clients.
VARIABLES
    gw_pc,          \* idle, awaiting (the HTTP request is out), returned, raised
    gw_call,        \* the client called, the server named and the arguments
    gw_requests,    \* the HTTP requests issued by the call, in order
    gw_result       \* the payload returned, or the exception raised

gatewayVars == <<gw_pc, gw_call, gw_requests, gw_result>>

\* The SessionManager, the threads that call it and its cleanup thread.
VARIABLES
    sessions,           \* self._sessions: session id -> list of messages
    session_metadata,   \* self._session_metadata
    last_activity,      \* self._last_activity: session id -> time
    lock,               \* self._lock: the thread that holds it, or NoThread
    thread_pc,          \* where each thread is in the method it runs
    thread_local,       \* the arguments and locals of that method call
    now,                \* the clock that datetime.utcnow() reads
    ops,                \* method calls started so far
    acked,              \* per session: the messages whose add_message has
                        \* returned since the session was last removed
    effect              \* per session: the messages in the order their
                        \* appends took effect since it was last removed

managerVars == <<sessions, session_metadata, last_activity, lock, thread_pc,
                 thread_local, now, ops, acked, effect>>

\* A run of the pricing workflow.
VARIABLES
    pr_pc,          \* idle, the stage to run next, done or raised
    pr_entry,       \* process_pricing, or the stage methods called directly
    pr_state,       \* the PricingState dict the stages receive and return
    pr_stages,      \* the stages entered, in order
    pr_calls,       \* the data-store queries and LLM completions, in order
    pr_returned     \* what process_pricing returned

pricingVars == <<pr_pc, pr_entry, pr_state, pr_stages, pr_calls, pr_returned>>

\* The module global _session_manager and the threads that ask for it.
VARIABLES
    global_session_manager, \* _session_manager: None or a SessionManager
    managers,               \* the SessionManager instances constructed so far,
                            \* each with the messages added to it
    getter_pc,              \* where each thread is in get_session_manager
    getter_local,           \* the instance a thread has constructed
    handle,                 \* what get_session_manager last returned to a thread
    gets                    \* calls of get_session_manager started so far

singletonVars == <<global_session_manager, managers, getter_pc, getter_local,
                   handle, gets>>

vars == <<bookingVars, functionVars, gatewayVars, managerVars, pricingVars,
          singletonVars>>

\* what a call of the booking assistant leaves alone
outsideBooking ==
    <<functionVars, gatewayVars, managerVars, pricingVars, singletonVars>>

NotApplied == [fn |-> "none"]

FunctionsIdle == applied = NotApplied /\ fn_result = PyNone

GatewayIdle ==
    /\ gw_pc = "idle"
    /\ gw_call = PyNone
    /\ gw_requests = <<>>
    /\ gw_result = PyNone

PricingIdle ==
    /\ pr_pc = "idle"
    /\ pr_entry = "none"
    /\ pr_state = EmptyDict
    /\ pr_stages = <<>>
    /\ pr_calls = <<>>
    /\ pr_returned = PyNone

\* the threads that call the manager, and its cleanup thread
Callers == {"t1", "t2"}

Cleanup == "cleanup"

Threads == Callers \cup {Cleanup}

NoThread == "none"

SessionIds == {"s1", "s2"}

\* SessionManager.__init__: empty maps, the lock free, the cleanup thread
\* started and asleep
ManagerIdle ==
    /\ sessions = EmptyDict
    /\ session_metadata = EmptyDict
    /\ last_activity = EmptyDict
    /\ lock = NoThread
    /\ thread_pc = [t \in Threads |-> "idle"]
    /\ thread_local = [t \in Threads |-> EmptyDict]
    /\ now = 0
    /\ ops = 0
    /\ acked = [s \in SessionIds |-> {}]
    /\ effect = [s \in SessionIds |-> <<>>]

\* the module is imported and get_session_manager has not been called
SingletonIdle ==
    /\ global_session_manager = PyNone
    /\ managers = EmptyDict
    /\ getter_pc = [t \in Callers |-> "idle"]
    /\ getter_local = [t \in Callers |-> PyNone]
    /\ handle = [t \in Callers |-> PyNone]
    /\ gets = 0

\* The session dicts a caller passes on its first call.
CallerSessions ==
    { PyNone, EmptyDict, [step |-> "initial"], [step |-> "showing_options"] }

Messages ==
    { <<"1">>, <<" ", "b", "b", " ">>, <<"A", "b", " ", "B", "a">>, <<"a", "b">> }

ClientIds == {"c1"}

\* The intents process_request is called with when it is called on its own.
StageIntents ==
    {[type |-> "direct_booking", photographer_name |-> n, requirements |-> r] :
        n \in RequestedNames, r \in Requirements}
    \cup {[type |-> "selection_from_options", photographer_name |-> n,
           requirements |-> EmptyDict] : n \in RequestedNames}
    \cup {[type |-> "recommendation_request", requirements |-> r] :
            r \in {EmptyDict, [location |-> <<"a">>, outdoor |-> TRUE]}}
    \cup {[type |-> "direct_booking"], [type |-> "unclear"], [type |-> "other"]}

NoState ==
    [message |-> <<>>, client_id |-> "", intent |-> EmptyDict, matches |-> <<>>,
     response |-> EmptyDict, current_step |-> "none"]

Init ==
    /\ pc = "idle"
    /\ turn = 0
    /\ entry = "none"
    /\ state = NoState
    /\ session_state \in CallerSessions
    /\ session_in = session_state
    /\ calls = <<>>
    /\ stages = <<>>
    /\ handlers = <<>>
    /\ returned = EmptyDict
    /\ FunctionsIdle
    /\ GatewayIdle
    /\ ManagerIdle
    /\ PricingIdle
    /\ SingletonIdle

CallEnded == pc \in {"idle", "done", "raised"}

\* handle_booking_request up to the invocation of the graph
HandleBookingRequest ==
    /\ CallEnded
    /\ turn < MaxTurns
    /\ \E message \in Messages, client_id \in ClientIds :
         LET sess == IF session_state = PyNone THEN [step |-> "initial"]
                     ELSE session_state
         IN  /\ session_state' = sess
             /\ session_in' = sess
             /\ state' = [message |-> message, client_id |-> client_id,
                          intent |-> EmptyDict, matches |-> <<>>,
                          response |-> EmptyDict, current_step |-> "initialized"]
    /\ turn' = turn + 1
    /\ entry' = "handle_booking_request"
    /\ pc' = "analyze_intent"
    /\ calls' = <<>>
    /\ stages' = <<>>
    /\ handlers' = <<>>
    /\ returned' = EmptyDict
    /\ UNCHANGED outsideBooking

\* process_request called on its own, with a state that holds an intent
CallProcessRequest ==
    /\ CallEnded
    /\ turn < MaxTurns
    /\ session_state # PyNone
    /\ \E intent \in StageIntents, client_id \in ClientIds :
         state' = [message |-> <<>>, client_id |-> client_id, intent |-> intent,
                   matches |-> <<>>, response |-> EmptyDict,
                   current_step |-> "intent_analyzed"]
    /\ session_in' = session_state
    /\ turn' = turn + 1
    /\ entry' = "process_request"
    /\ pc' = "process_request"
    /\ calls' = <<>>
    /\ stages' = <<>>
    /\ handlers' = <<>>
    /\ returned' = EmptyDict
    /\ UNCHANGED <<session_state, outsideBooking>>

AnalyzeIntent ==
    /\ pc = "analyze_intent"
    /\ \E llm \in LLMOutcomes :
         LET r == AnalyzeIntentStep(state, session_state, llm)
         IN  /\ state' = r.state
             /\ calls' = calls \o r.calls
    /\ stages' = Append(stages, "analyze_intent")
    /\ pc' = "process_request"
    /\ UNCHANGED <<turn, entry, session_state, session_in, handlers, returned,
                   outsideBooking>>

\* the end of process_request: an exception of the handler propagates, else
\* current_step is set and the next stage follows
AfterHandler(r, handler) ==
    /\ session_state' = r.session
    /\ calls' = calls \o r.calls
    /\ stages' = Append(stages, "process_request")
    /\ handlers' = Append(handlers, handler)
    /\ IF r.raised
       THEN /\ state' = r.state
            /\ pc' = "raised"
       ELSE /\ state' = [r.state EXCEPT !.current_step = "request_processed"]
            /\ pc' = IF entry = "handle_booking_request"
                     THEN "finalize_response" ELSE "done"
    /\ UNCHANGED <<turn, entry, session_in, returned, outsideBooking>>

\* svc is among the external calls r made
Made(r, svc) == \E i \in 1..Len(r.calls) : r.calls[i].svc = svc

\* The tool servers and the booking endpoint answer the calls that are made:
\* an outcome is drawn for a service only when the handler, given the
\* outcomes drawn before, calls it.
Unasked == [kind |-> "timeout"]

ProcessDirectBooking ==
    /\ pc = "process_request"
    /\ HandlerFor(state.intent.type) = "direct_booking"
    /\ \E db \in DataStores :
         LET Run(av_http, w_http, b_http) ==
                 HandleDirectBookingStep(state, session_state, db, av_http,
                                         w_http, b_http)
         IN  \E av_http \in IF Made(Run(Unasked, Unasked, Unasked), "availability")
                            THEN AvailabilityHttp ELSE {Unasked} :
             \E w_http \in IF Made(Run(av_http, Unasked, Unasked), "weather")
                           THEN WeatherHttp ELSE {Unasked} :
             \E b_http \in IF Made(Run(av_http, w_http, Unasked), "booking")
                           THEN BookingHttp ELSE {Unasked} :
                AfterHandler(Run(av_http, w_http, b_http), "direct_booking")

ProcessRecommendation ==
    /\ pc = "process_request"
    /\ HandlerFor(state.intent.type) = "recommendation"
    /\ \E db \in DataStores :
         AfterHandler(HandleRecommendationStep(state, session_state, db),
                      "recommendation")

ProcessUnclear ==
    /\ pc = "process_request"
    /\ HandlerFor(state.intent.type) = "unclear"
    /\ AfterHandler(HandleUnclearStep(state, session_state), "unclear")

FinalizeResponse ==
    /\ pc = "finalize_response"
    /\ state' = [state EXCEPT !.current_step = "completed"]
    /\ stages' = Append(stages, "finalize_response")
    /\ pc' = "return"
    /\ UNCHANGED <<turn, entry, session_state, session_in, calls, handlers, returned,
                   outsideBooking>>

\* return final_state["response"]
ReturnResponse ==
    /\ pc = "return"
    /\ returned' = state.response
    /\ pc' = "done"
    /\ UNCHANGED <<turn, entry, state, session_state, session_in, calls, stages,
                   handlers, outsideBooking>>

Next ==
    \/ HandleBookingRequest
    \/ CallProcessRequest
    \/ AnalyzeIntent
    \/ ProcessDirectBooking
    \/ ProcessRecommendation
    \/ ProcessUnclear
    \/ FinalizeResponse
    \/ ReturnResponse

Spec == Init /\ [][Next]_vars

-----------------------------------------------------------------------------
(* The helpers of the assistant, called on their own                       *)

\* no call of the assistant is under way
BookingIdle ==
    /\ pc = "idle"
    /\ turn = 0
    /\ entry = "none"
    /\ state = NoState
    /\ session_state = PyNone
    /\ session_in = PyNone
    /\ calls = <<>>
    /\ stages = <<>>
    /\ handlers = <<>>
    /\ returned = EmptyDict

outsideFunctions ==
    <<bookingVars, gatewayVars, managerVars, pricingVars, singletonVars>>

NameAlphabet == {"a", "b", "A", "B", " "}

\* every string over the alphabet of at most MaxNameLen characters
LookupNames == UNION {[1..n -> NameAlphabet] : n \in 0..MaxNameLen}

\* active photographer whose user has empty first and last names
Ph5 == Row("p5", <<>>, <<>>, <<"a">>, 40, TRUE, <<Pkg("k7", "n7", 70, TRUE)>>)

LookupStores ==
    DataStores \cup { [fails |-> FALSE, rows |-> <<Ph5>>],
                      [fails |-> FALSE, rows |-> <<Ph1, Ph5, Ph2>>] }

\* await self._find_photographers_by_name(name)
CallFindPhotographersByName ==
    /\ applied = NotApplied
    /\ \E name \in LookupNames, db \in LookupStores :
         /\ applied' = [fn |-> "_find_photographers_by_name", name |-> name, db |-> db]
         /\ fn_result' = FindPhotographersByName(name, db)
    /\ UNCHANGED outsideFunctions

ScorePrices == {50, 100, 300}

\* the photographer rows and price contexts the score is computed for
ScoreRows ==
    { Row("p", <<"a">>, <<"b">>, loc, rating, TRUE, pkgs) :
        loc \in {<<>>, <<"a">>}, rating \in 0..MaxRating,
        pkgs \in {<<>>, <<Pkg("k", "n", 100, TRUE)>>} }

\* self._calculate_match_score_with_price_context(photographer, requirements, ...)
CallCalculateMatchScore ==
    /\ applied = NotApplied
    /\ \E row \in ScoreRows, requirements \in {EmptyDict, [location |-> <<"A">>]},
          pool_min_price \in ScorePrices, pool_max_price \in ScorePrices,
          photographer_min_price \in ScorePrices :
         /\ pool_min_price <= photographer_min_price
         /\ photographer_min_price <= pool_max_price
         /\ applied' = [fn |-> "_calculate_match_score_with_price_context",
                        row |-> row, requirements |-> requirements,
                        photographer_min_price |-> photographer_min_price,
                        pool_min_price |-> pool_min_price,
                        pool_max_price |-> pool_max_price]
         /\ fn_result' = CalculateMatchScore(row, requirements, photographer_min_price,
                                             pool_min_price, pool_max_price)
    /\ UNCHANGED outsideFunctions

\* the scores a reason is asked for: whole scores and 79.8
ReasonScores == {Frac(n, 1) : n \in {15, 59, 60, 79, 80, 100}} \cup {Frac(399, 5)}

\* minimum package prices, 0 for a free package
ReasonPrices == {0, 100, 110, 120, 121, 150, 151, 200, 300}

ReasonRows ==
    { Row("p", <<"a">>, <<"b">>, loc, rating, TRUE, <<Pkg("k", "n", 100, TRUE)>>) :
        loc \in {<<>>, <<"a">>}, rating \in {44, 45} }

\* self._generate_match_reason(photographer_data, requirements, score,
\* min_price, min_price_in_pool): the pool minimum is at most the price
CallGenerateMatchReason ==
    /\ applied = NotApplied
    /\ \E row \in ReasonRows, requirements \in {EmptyDict, [location |-> <<"A">>]},
          score \in ReasonScores, photographer_price \in ReasonPrices,
          pool_min_price \in ReasonPrices :
         /\ pool_min_price <= photographer_price
         /\ applied' = [fn |-> "_generate_match_reason", row |-> row,
                        requirements |-> requirements, score |-> score,
                        photographer_price |-> photographer_price,
                        pool_min_price |-> pool_min_price]
         /\ fn_result' = GenerateMatchReason(row, requirements, score,
                                             photographer_price, pool_min_price)
    /\ UNCHANGED outsideFunctions

\* the try block of analyze_intent once the completion has arrived, or the
\* call has raised: the regex search, json.loads and the except branch
CallExtractIntent ==
    /\ applied = NotApplied
    /\ \E message \in Messages, llm \in LLMOutcomes :
         /\ applied' = [fn |-> "analyze_intent", message |-> message, llm |-> llm]
         /\ fn_result' = ExtractIntent(message, llm)
    /\ UNCHANGED outsideFunctions

FunctionInit ==
    /\ BookingIdle /\ FunctionsIdle /\ GatewayIdle /\ ManagerIdle /\ PricingIdle
    /\ SingletonIdle

FunctionNext ==
    \/ CallFindPhotographersByName
    \/ CallCalculateMatchScore
    \/ CallGenerateMatchReason
    \/ CallExtractIntent

FunctionSpec == FunctionInit /\ [][FunctionNext]_vars

-----------------------------------------------------------------------------
(* The two tool-gateway clients: service/mcp_client.py, utils/mcp_client.py *)

outsideGateway ==
    <<bookingVars, functionVars, managerVars, pricingVars, singletonVars>>

\* the keys of self.servers of the utils client
Servers == {"availability", "weather", "maps", "search"}

\* the server names callers pass: the wrappers of the utils client also name
\* "email", and "calendar" is named in its docstring
ServerNames == {"availability", "weather", "search", "maps", "email", "calendar"}

\* What the HTTP exchange of a gateway call can do: a reply with a status
\* and a body that is JSON or not, a timeout, a transport error
\* (httpx.HTTPError) or any other exception.
GatewayHttp ==
    { [kind |-> "reply", status |-> 200, json |-> [ok |-> TRUE]],
      [kind |-> "reply", status |-> 200],
      [kind |-> "reply", status |-> 201, json |-> [ok |-> TRUE]],
      [kind |-> "reply", status |-> 204],
      [kind |-> "reply", status |-> 302],
      [kind |-> "reply", status |-> 404],
      [kind |-> "reply", status |-> 500],
      [kind |-> "timeout"],
      [kind |-> "transport"],
      [kind |-> "exception"] }

\* the data argument of _make_request and the params of call_tool
GatewayData == {PyNone, EmptyDict, [date |-> "2024-12-15"]}

\* response.is_success, which raise_for_status tests
IsSuccess(status) == 200 <= status /\ status <= 299

\* service client, _make_request up to the request: an unknown server gives
\* an error payload at once; data that is truthy is POSTed, else GET
ServiceMakeRequest ==
    /\ gw_pc = "idle"
    /\ \E server \in ServerNames, data \in GatewayData :
         /\ gw_call' = [client |-> "service", server |-> server, data |-> data]
         /\ IF server \notin BaseUrls
            THEN /\ gw_pc' = "returned"
                 /\ gw_result' = MakeRequest(server, PyNone)
                 /\ gw_requests' = gw_requests
            ELSE /\ gw_pc' = "awaiting"
                 /\ gw_requests' = Append(gw_requests,
                        [method |-> IF data \in {PyNone, EmptyDict} THEN "GET" ELSE "POST",
                         server |-> server])
                 /\ gw_result' = gw_result
    /\ UNCHANGED outsideGateway

\* service client, the rest of _make_request
ServiceReceive ==
    /\ gw_pc = "awaiting"
    /\ gw_call.client = "service"
    /\ \E http \in GatewayHttp :
         /\ gw_result' = MakeRequest(gw_call.server, http)
         /\ gw_call' = gw_call @@ [http |-> http]
    /\ gw_pc' = "returned"
    /\ UNCHANGED <<gw_requests, outsideGateway>>

\* what call_tool gives for the outcome of its POST
CallToolResult(http) ==
    IF http.kind = "reply"
    THEN IF IsSuccess(http.status)
         THEN IF HasKey(http, "json") THEN http.json
              ELSE [error |-> "json", fallback |-> TRUE]     \* except Exception
         ELSE [error |-> "status", fallback |-> TRUE]        \* except httpx.HTTPError
    ELSE IF http.kind = "timeout" THEN [error |-> "Timeout", fallback |-> TRUE]
    ELSE [error |-> "str(e)", fallback |-> TRUE]

\* utils client, call_tool up to the request: an unknown server raises
\* ValueError, a disabled one gives an error payload, else params are POSTed
UtilsCallTool ==
    /\ gw_pc = "idle"
    /\ \E server \in ServerNames, params \in GatewayData, enabled \in BOOLEAN :
         /\ gw_call' = [client |-> "utils", server |-> server, data |-> params,
                        enabled |-> enabled]
         /\ IF server \notin Servers
            THEN /\ gw_pc' = "raised"
                 /\ gw_result' = [exception |-> "ValueError"]
                 /\ gw_requests' = gw_requests
            ELSE IF ~enabled
            THEN /\ gw_pc' = "returned"
                 /\ gw_result' = [error |-> "disabled", fallback |-> TRUE]
                 /\ gw_requests' = gw_requests
            ELSE /\ gw_pc' = "awaiting"
                 /\ gw_requests' = Append(gw_requests,
                                          [method |-> "POST", server |-> server])
                 /\ gw_result' = gw_result
    /\ UNCHANGED outsideGateway

\* utils client, the rest of call_tool
UtilsReceive ==
    /\ gw_pc = "awaiting"
    /\ gw_call.client = "utils"
    /\ \E http \in GatewayHttp :
         /\ gw_result' = CallToolResult(http)
         /\ gw_call' = gw_call @@ [http |-> http]
    /\ gw_pc' = "returned"
    /\ UNCHANGED <<gw_requests, outsideGateway>>

GatewayInit ==
    /\ BookingIdle /\ FunctionsIdle /\ GatewayIdle /\ ManagerIdle /\ PricingIdle
    /\ SingletonIdle

GatewayNext ==
    \/ ServiceMakeRequest
    \/ ServiceReceive
    \/ UtilsCallTool
    \/ UtilsReceive

GatewaySpec == GatewayInit /\ [][GatewayNext]_vars

-----------------------------------------------------------------------------
(* The SessionManager, utils/session_manager.py                            *)

outsideManager ==
    <<bookingVars, functionVars, gatewayVars, pricingVars, singletonVars>>

\* d[k] = v
Put(d, k, v) == [x \in DOMAIN d \cup {k} |-> IF x = k THEN v ELSE d[x]]

\* del d[k]
Del(d, k) == [x \in DOMAIN d \ {k} |-> d[x]]

\* a plausible slip: clear_session leaves the entry of _last_activity behind
ClearDel_KeepsActivity(t) ==
    /\ thread_pc[t] = "clear_del"
    /\ LET session_id == thread_local[t].session_id
       IN  IF session_id \in DOMAIN sessions
           THEN /\ sessions' = Del(sessions, session_id)
                /\ session_metadata' = Del(session_metadata, session_id)
                /\ thread_local' = [thread_local EXCEPT ![t] =
                                       [result |-> TRUE] @@ @]
           ELSE /\ thread_local' = [thread_local EXCEPT ![t] =
                                       [result |-> FALSE] @@ @]
                /\ UNCHANGED <<sessions, session_metadata>>
    /\ thread_pc' = [thread_pc EXCEPT ![t] = "release"]
    /\ UNCHANGED <<last_activity, acked, effect, lock, now, ops, outsideManager>>

\* a plausible slip: the methods run without taking the lock
CanAcquire_Unlocked(holder) == TRUE

\* with self._lock: a thread enters when no thread holds the lock
CanAcquire(holder) == holder = NoThread

\* a plausible slip: the message replaces the list
AppendMessage_Replace(messages, message) == <<message>>

\* self._sessions[session_id].append(message)
AppendMessage(messages, message) == Append(messages, message)

\* metadata or {}
MetadataOrEmpty(metadata) == IF metadata = PyNone THEN EmptyDict ELSE metadata

\* the sessions with now - last_active > timeout
InactiveSessions(last, at, timeout) == {s \in DOMAIN last : at - last[s] > timeout}

\* the positions of a thread inside a with self._lock block
InsideLock ==
    {"add_create", "add_append", "add_touch", "get_check", "get_read",
     "meta_read", "clear_del", "sweep_scan", "sweep_delete", "release"}

\* the first statement of the body of each method
BodyOf(op) ==
    IF op = "add_message" THEN "add_create"
    ELSE IF op = "get_session_history" THEN "get_check"
    ELSE IF op = "get_session_metadata" THEN "meta_read"
    ELSE IF op = "clear_session" THEN "clear_del"
    ELSE "sweep_scan"

Goto(t, position) == thread_pc' = [thread_pc EXCEPT ![t] = position]

\* a removal of session s: what was added before it is no longer owed
Forget(removed) ==
    /\ acked' = [s \in SessionIds |-> IF s \in removed THEN {} ELSE acked[s]]
    /\ effect' = [s \in SessionIds |-> IF s \in removed THEN <<>> ELSE effect[s]]

\* a thread calls add_message(session_id, message_type, content, metadata)
AddMessage(t) ==
    /\ thread_pc[t] = "idle"
    /\ ops < MaxOps
    /\ \E session_id \in SessionIds, metadata \in {PyNone} :
         thread_local' = [thread_local EXCEPT ![t] =
                            [op |-> "add_message", session_id |-> session_id,
                             content |-> ops + 1, metadata |-> metadata]]
    /\ ops' = ops + 1
    /\ Goto(t, "acquire")
    /\ UNCHANGED <<sessions, session_metadata, last_activity, lock, now, acked,
                   effect, outsideManager>>

\* a thread calls get_session_history(session_id)
GetSessionHistory(t) ==
    /\ thread_pc[t] = "idle"
    /\ ops < MaxOps
    /\ \E session_id \in SessionIds :
         thread_local' = [thread_local EXCEPT ![t] =
                            [op |-> "get_session_history", session_id |-> session_id]]
    /\ ops' = ops + 1
    /\ Goto(t, "acquire")
    /\ UNCHANGED <<sessions, session_metadata, last_activity, lock, now, acked,
                   effect, outsideManager>>

\* a thread calls get_session_metadata(session_id)
GetSessionMetadata(t) ==
    /\ thread_pc[t] = "idle"
    /\ ops < MaxOps
    /\ \E session_id \in SessionIds :
         thread_local' = [thread_local EXCEPT ![t] =
                            [op |-> "get_session_metadata", session_id |-> session_id]]
    /\ ops' = ops + 1
    /\ Goto(t, "acquire")
    /\ UNCHANGED <<sessions, session_metadata, last_activity, lock, now, acked,
                   effect, outsideManager>>

\* a thread calls clear_session(session_id)
ClearSession(t) ==
    /\ thread_pc[t] = "idle"
    /\ ops < MaxOps
    /\ \E session_id \in SessionIds :
         thread_local' = [thread_local EXCEPT ![t] =
                            [op |-> "clear_session", session_id |-> session_id]]
    /\ ops' = ops + 1
    /\ Goto(t, "acquire")
    /\ UNCHANGED <<sessions, session_metadata, last_activity, lock, now, acked,
                   effect, outsideManager>>

\* _cleanup_loop: the cleanup thread wakes and calls _cleanup_inactive_sessions
CleanupInactiveSessions ==
    /\ thread_pc[Cleanup] = "idle"
    /\ thread_local' = [thread_local EXCEPT ![Cleanup] =
                            [op |-> "_cleanup_inactive_sessions"]]
    /\ Goto(Cleanup, "acquire")
    /\ UNCHANGED <<sessions, session_metadata, last_activity, lock, now, ops, acked,
                   effect, outsideManager>>

\* with self._lock: entering the block
Acquire(t) ==
    /\ thread_pc[t] = "acquire"
    /\ CanAcquire(lock)
    /\ lock' = t
    /\ Goto(t, BodyOf(thread_local[t].op))
    /\ UNCHANGED <<sessions, session_metadata, last_activity, thread_local, now, ops,
                   acked, effect, outsideManager>>

\* add_message: if session_id not in self._sessions, create its entries
AddCreate(t) ==
    /\ thread_pc[t] = "add_create"
    /\ LET session_id == thread_local[t].session_id
       IN  IF session_id \notin DOMAIN sessions
           THEN /\ sessions' = Put(sessions, session_id, <<>>)
                /\ session_metadata' = Put(session_metadata, session_id,
                                           MetadataOrEmpty(thread_local[t].metadata))
           ELSE UNCHANGED <<sessions, session_metadata>>
    /\ Goto(t, "add_append")
    /\ UNCHANGED <<last_activity, lock, thread_local, now, ops, acked, effect,
                   outsideManager>>

\* add_message: build the message and append it; a missing entry is KeyError,
\* which leaves the with block
AddAppend(t) ==
    /\ thread_pc[t] = "add_append"
    /\ LET session_id == thread_local[t].session_id
           message == [content |-> thread_local[t].content, timestamp |-> now,
                       metadata |-> MetadataOrEmpty(thread_local[t].metadata)]
       IN  IF session_id \in DOMAIN sessions
           THEN /\ sessions' = Put(sessions, session_id,
                                   AppendMessage(sessions[session_id], message))
                /\ effect' = [effect EXCEPT ![session_id] = Append(@, message)]
                /\ thread_local' = [thread_local EXCEPT ![t] =
                                       [message |-> message] @@ @]
                /\ Goto(t, "add_touch")
           ELSE /\ thread_local' = [thread_local EXCEPT ![t] =
                                       [raised |-> "KeyError"] @@ @]
                /\ Goto(t, "release")
                /\ UNCHANGED <<sessions, effect>>
    /\ UNCHANGED <<session_metadata, last_activity, lock, now, ops, acked,
                   outsideManager>>

\* add_message: self._last_activity[session_id] = datetime.utcnow()
AddTouch(t) ==
    /\ thread_pc[t] = "add_touch"
    /\ last_activity' = Put(last_activity, thread_local[t].session_id, now)
    /\ Goto(t, "release")
    /\ UNCHANGED <<sessions, session_metadata, lock, thread_local, now, ops, acked,
                   effect, outsideManager>>

\* get_session_history: [] for a session that is not there, else the last
\* activity is updated
GetCheck(t) ==
    /\ thread_pc[t] = "get_check"
    /\ LET session_id == thread_local[t].session_id
       IN  IF session_id \notin DOMAIN sessions
           THEN /\ thread_local' = [thread_local EXCEPT ![t] =
                                       [result |-> <<>>] @@ @]
                /\ Goto(t, "release")
                /\ UNCHANGED last_activity
           ELSE /\ last_activity' = Put(last_activity, session_id, now)
                /\ Goto(t, "get_read")
                /\ UNCHANGED thread_local
    /\ UNCHANGED <<sessions, session_metadata, lock, now, ops, acked, effect,
                   outsideManager>>

\* get_session_history: return [msg.to_dict() for msg in the list]
GetRead(t) ==
    /\ thread_pc[t] = "get_read"
    /\ LET session_id == thread_local[t].session_id
       IN  thread_local' = [thread_local EXCEPT ![t] =
                [result |-> IF session_id \in DOMAIN sessions
                            THEN sessions[session_id] ELSE <<>>] @@ @]
    /\ Goto(t, "release")
    /\ UNCHANGED <<sessions, session_metadata, last_activity, lock, now, ops, acked,
                   effect, outsideManager>>

\* get_session_metadata: self._session_metadata.get(session_id, {})
MetaRead(t) ==
    /\ thread_pc[t] = "meta_read"
    /\ LET session_id == thread_local[t].session_id
       IN  thread_local' = [thread_local EXCEPT ![t] =
                [result |-> IF session_id \in DOMAIN session_metadata
                            THEN session_metadata[session_id] ELSE EmptyDict] @@ @]
    /\ Goto(t, "release")
    /\ UNCHANGED <<sessions, session_metadata, last_activity, lock, now, ops, acked,
                   effect, outsideManager>>

\* clear_session: delete the three entries of a session that is there
ClearDel(t) ==
    /\ thread_pc[t] = "clear_del"
    /\ LET session_id == thread_local[t].session_id
       IN  IF session_id \in DOMAIN sessions
           THEN /\ sessions' = Del(sessions, session_id)
                /\ session_metadata' = Del(session_metadata, session_id)
                /\ last_activity' = Del(last_activity, session_id)
                /\ Forget({session_id})
                /\ thread_local' = [thread_local EXCEPT ![t] =
                                       [result |-> TRUE] @@ @]
           ELSE /\ thread_local' = [thread_local EXCEPT ![t] =
                                       [result |-> FALSE] @@ @]
                /\ UNCHANGED <<sessions, session_metadata, last_activity, acked,
                               effect>>
    /\ Goto(t, "release")
    /\ UNCHANGED <<lock, now, ops, outsideManager>>

\* _cleanup_inactive_sessions: read the clock and list the inactive sessions
SweepScan ==
    /\ thread_pc[Cleanup] = "sweep_scan"
    /\ thread_local' = [thread_local EXCEPT ![Cleanup] =
            [op |-> "_cleanup_inactive_sessions", at |-> now, seen |-> last_activity,
             inactive_sessions |->
                InactiveSessions(last_activity, now, TimeoutMinutes)]]
    /\ Goto(Cleanup, "sweep_delete")
    /\ UNCHANGED <<sessions, session_metadata, last_activity, lock, now, ops, acked,
                   effect, outsideManager>>

\* _cleanup_inactive_sessions: the loop that deletes the listed sessions
SweepDelete ==
    /\ thread_pc[Cleanup] = "sweep_delete"
    /\ LET inactive_sessions == thread_local[Cleanup].inactive_sessions
       IN  /\ sessions' = [s \in DOMAIN sessions \ inactive_sessions |-> sessions[s]]
           /\ session_metadata' = [s \in DOMAIN session_metadata \ inactive_sessions |->
                                      session_metadata[s]]
           /\ last_activity' = [s \in DOMAIN last_activity \ inactive_sessions |->
                                   last_activity[s]]
           /\ Forget(inactive_sessions)
    /\ Goto(Cleanup, "release")
    /\ UNCHANGED <<lock, thread_local, now, ops, outsideManager>>

\* leaving the with block and returning, which ends the locals of the call;
\* add_message has then returned
Release(t) ==
    /\ thread_pc[t] = "release"
    /\ lock' = NoThread
    /\ Goto(t, "idle")
    /\ IF thread_local[t].op = "add_message" /\ HasKey(thread_local[t], "message")
       THEN LET session_id == thread_local[t].session_id
                message == thread_local[t].message
            IN  acked' = [acked EXCEPT ![session_id] =
                    IF \E i \in 1..Len(effect[session_id]) :
                          effect[session_id][i] = message
                    THEN @ \cup {message} ELSE @]
       ELSE UNCHANGED acked
    /\ thread_local' = [thread_local EXCEPT ![t] = EmptyDict]
    /\ UNCHANGED <<sessions, session_metadata, last_activity, now, ops, effect,
                   outsideManager>>

\* time passes
Tick ==
    /\ now < MaxClock
    /\ now' = now + 1
    /\ UNCHANGED <<sessions, session_metadata, last_activity, lock, thread_pc,
                   thread_local, ops, acked, effect, outsideManager>>

ManagerInit ==
    /\ BookingIdle /\ FunctionsIdle /\ GatewayIdle /\ ManagerIdle /\ PricingIdle
    /\ SingletonIdle

ManagerNext ==
    \/ \E t \in Callers : AddMessage(t)
    \/ \E t \in Callers : GetSessionHistory(t)
    \/ \E t \in Callers : GetSessionMetadata(t)
    \/ \E t \in Callers : ClearSession(t)
    \/ CleanupInactiveSessions
    \/ \E t \in Threads : Acquire(t)
    \/ \E t \in Callers : AddCreate(t)
    \/ \E t \in Callers : AddAppend(t)
    \/ \E t \in Callers : AddTouch(t)
    \/ \E t \in Callers : GetCheck(t)
    \/ \E t \in Callers : GetRead(t)
    \/ \E t \in Callers : MetaRead(t)
    \/ \E t \in Callers : ClearDel(t)
    \/ SweepScan
    \/ SweepDelete
    \/ \E t \in Threads : Release(t)
    \/ Tick

ManagerSpec == ManagerInit /\ [][ManagerNext]_vars

-----------------------------------------------------------------------------
(* The pricing workflow, agents/pricing_agent.py. Money is held in cents.  *)

outsidePricing ==
    <<bookingVars, functionVars, gatewayVars, managerVars, singletonVars>>

\* the keys class PricingState declares: duration_hours is not among them
PricingStateKeys ==
    {"photographer_id", "service_type", "location", "season", "market_data",
     "competitor_prices", "photographer_history", "suggested_price", "reasoning",
     "current_step"}

\* StateGraph(PricingState) has one channel per declared key, and the state a
\* stage receives is read from the channels: a key of the input that the
\* schema does not declare is not passed on
GraphInput(initial_state) ==
    [k \in DOMAIN initial_state \cap PricingStateKeys |-> initial_state[k]]

\* initial_state of process_pricing
InitialState(photographer_id, service_type, location, duration_hours, season) ==
    [photographer_id |-> photographer_id, service_type |-> service_type,
     location |-> location, duration_hours |-> duration_hours, season |-> season,
     market_data |-> EmptyDict, competitor_prices |-> <<>>,
     photographer_history |-> EmptyDict, suggested_price |-> 0,
     reasoning |-> "", current_step |-> "initialized"]

RECURSIVE Sum(_)
Sum(s) == IF s = <<>> THEN 0 ELSE Head(s) + Sum(Tail(s))

\* statistics.mean; the stores below hold prices whose mean is whole cents
Mean(s) == Sum(s) \div Len(s)

RECURSIVE InsertNumber(_, _)
InsertNumber(x, sorted) ==
    IF sorted = <<>> THEN <<x>>
    ELSE IF x <= Head(sorted) THEN <<x>> \o sorted
    ELSE <<Head(sorted)>> \o InsertNumber(x, Tail(sorted))

RECURSIVE SortNumbers(_)
SortNumbers(s) == IF s = <<>> THEN <<>> ELSE InsertNumber(Head(s), SortNumbers(Tail(s)))

\* statistics.median
Median(s) ==
    LET sorted == SortNumbers(s)
        n == Len(s)
    IN  IF n % 2 = 1 THEN sorted[(n + 1) \div 2]
        ELSE (sorted[n \div 2] + sorted[n \div 2 + 1]) \div 2

\* [b["final_price"] for b in bookings if b.get("final_price")]
FinalPrices(bookings) ==
    LET priced == SelectSeq(bookings, LAMBDA b : b.final_price # 0)
    IN  [i \in 1..Len(priced) |-> priced[i].final_price]

\* a plausible slip: the sample size counts the bookings, not the prices
MarketData_CountsBookings(bookings) ==
    LET prices == FinalPrices(bookings)
    IN  [average_price |-> IF prices # <<>> THEN Mean(prices) ELSE 0,
         median_price |-> IF prices # <<>> THEN Median(prices) ELSE 0,
         min_price |-> IF prices # <<>> THEN MinOf(prices) ELSE 0,
         max_price |-> IF prices # <<>> THEN MaxOf(prices) ELSE 0,
         sample_size |-> Len(bookings)]

\* the market_data dict of analyze_market
MarketData(bookings) ==
    LET prices == FinalPrices(bookings)
    IN  IF bookings # <<>> /\ prices # <<>>
        THEN [average_price |-> Mean(prices), median_price |-> Median(prices),
              min_price |-> MinOf(prices), max_price |-> MaxOf(prices),
              sample_size |-> Len(prices)]
        ELSE [average_price |-> 0, median_price |-> 0, min_price |-> 0,
              max_price |-> 0, sample_size |-> 0]

\* What the query of completed bookings can give: it raises, or rows whose
\* final_price is a positive amount or 0.
MarketStores ==
    { [fails |-> TRUE, rows |-> <<>>],
      [fails |-> FALSE, rows |-> <<>>],
      [fails |-> FALSE, rows |-> <<[final_price |-> 0]>>],
      [fails |-> FALSE, rows |-> <<[final_price |-> 30000]>>],
      [fails |-> FALSE, rows |-> <<[final_price |-> 10000], [final_price |-> 0],
                                   [final_price |-> 20000]>>] }

\* the photographers of the location: the photographer priced is p1
CompetitorStores ==
    { [fails |-> TRUE, rows |-> <<>>],
      [fails |-> FALSE, rows |-> <<>>],
      [fails |-> FALSE, rows |-> <<[id |-> "p1", base_price |-> 10000,
                                    hourly_rate |-> 5000]>>],
      [fails |-> FALSE, rows |-> <<[id |-> "p1", base_price |-> 10000,
                                    hourly_rate |-> 5000],
                                   [id |-> "p2", base_price |-> 20000,
                                    hourly_rate |-> 4000],
                                   [id |-> "p3", base_price |-> 0,
                                    hourly_rate |-> 0]>>] }

\* the completed bookings of the photographer; ratings in tenths
HistoryStores ==
    { [fails |-> TRUE, rows |-> <<>>],
      [fails |-> FALSE, rows |-> <<>>],
      [fails |-> FALSE, rows |-> <<[final_price |-> 40000, rating |-> 50, recent |-> TRUE],
                                   [final_price |-> 20000, rating |-> 0, recent |-> FALSE]>>] }

IsDigit(c) == c \in {"0", "1", "3", "4", "5", "7", "9"}

DigitValue(c) ==
    IF c = "0" THEN 0 ELSE IF c = "1" THEN 1 ELSE IF c = "3" THEN 3
    ELSE IF c = "4" THEN 4 ELSE IF c = "5" THEN 5 ELSE IF c = "7" THEN 7 ELSE 9

\* \d* at position i: the longest run of digits that starts there
RECURSIVE DigitsFrom(_, _)
DigitsFrom(s, i) ==
    IF i <= Len(s) /\ IsDigit(s[i]) THEN <<s[i]>> \o DigitsFrom(s, i + 1) ELSE <<>>

RECURSIVE IntOf(_)
IntOf(digits) ==
    IF digits = <<>> THEN 0
    ELSE 10 * IntOf(SubSeq(digits, 1, Len(digits) - 1)) + DigitValue(digits[Len(digits)])

\* the cents of a fractional part of at most two digits
CentsOf(digits) ==
    IF digits = <<>> THEN 0
    ELSE IF Len(digits) = 1 THEN 10 * DigitValue(digits[1])
    ELSE 10 * DigitValue(digits[1]) + DigitValue(digits[2])

\* float(re.findall(r'\d+\.?\d*', llm_response)[0]): the leftmost run of
\* digits, a dot if one follows, and the digits after it
FirstNumber(llm_response) ==
    LET starts == {i \in 1..Len(llm_response) : IsDigit(llm_response[i])}
        first  == CHOOSE i \in starts : \A j \in starts : i <= j
        whole  == DigitsFrom(llm_response, first)
        dot    == first + Len(whole)
        fraction == IF dot <= Len(llm_response) /\ llm_response[dot] = "."
                    THEN DigitsFrom(llm_response, dot + 1) ELSE <<>>
    IN  IF starts = {} THEN [found |-> FALSE]
        ELSE [found |-> TRUE, price |-> 100 * IntOf(whole) + CentsOf(fraction)]

\* a plausible slip: the number is taken without the sanity check
ExtractPrice_NoSanityCheck(llm_response, pstate) ==
    LET numbers == FirstNumber(llm_response)
    IN  IF numbers.found THEN [raised |-> FALSE, price |-> numbers.price]
        ELSE IF pstate.market_data.average_price > 0
        THEN [raised |-> FALSE, price |-> pstate.market_data.average_price]
        ELSE [raised |-> FALSE, price |-> 20000 * pstate.duration_hours]

\* _extract_price; state["duration_hours"] is KeyError for a state without it
ExtractPrice(llm_response, pstate) ==
    LET numbers == FirstNumber(llm_response)
        market_avg == pstate.market_data.average_price
    IN  IF numbers.found /\ 5000 <= numbers.price /\ numbers.price <= 1000000
        THEN [raised |-> FALSE, price |-> numbers.price]
        ELSE IF market_avg > 0 THEN [raised |-> FALSE, price |-> market_avg]
        ELSE IF HasKey(pstate, "duration_hours")
        THEN [raised |-> FALSE, price |-> 20000 * pstate.duration_hours]
        ELSE [raised |-> TRUE]

\* The completions of the pricing LLM, each with the first number a reader
\* finds in it (in cents), or none.
PriceCompletions ==
    { [text |-> <<"t">>, first_number |-> [found |-> FALSE]],
      [text |-> <<"4", "5", "0">>, first_number |-> [found |-> TRUE, price |-> 45000]],
      [text |-> <<"t", " ", "7", "5", ".", "5", " ", "t">>, first_number |-> [found |-> TRUE, price |-> 7550]],
      [text |-> <<"4", "9">>, first_number |-> [found |-> TRUE, price |-> 4900]],
      [text |-> <<"t", "5", "0", ".">>, first_number |-> [found |-> TRUE, price |-> 5000]],
      [text |-> <<"1", "0", "0", "0", "0">>, first_number |-> [found |-> TRUE, price |-> 1000000]],
      [text |-> <<"1", "0", "0", "0", "1">>, first_number |-> [found |-> TRUE, price |-> 1000100]],
      [text |-> <<"3", " ", "t", " ", "4", "5", "0">>, first_number |-> [found |-> TRUE, price |-> 300]],
      [text |-> <<"t", "4", "9", ".", "9", "9">>, first_number |-> [found |-> TRUE, price |-> 4999]] }

\* process_pricing: the season defaults by the month, and the graph is invoked
ProcessPricing ==
    /\ pr_pc = "idle"
    /\ \E duration_hours \in {1, 3}, season_given \in BOOLEAN :
       \E season \in IF season_given THEN {"peak"} ELSE {"peak", "off-peak"} :
          pr_state' = GraphInput(InitialState("p1", "portrait", "a", duration_hours,
                                              season))
    /\ pr_entry' = "process_pricing"
    /\ pr_pc' = "analyze_market"
    /\ UNCHANGED <<pr_stages, pr_calls, pr_returned, outsidePricing>>

\* the stage methods awaited one after the other on a state dict that holds
\* duration_hours, without the graph
CallStages ==
    /\ pr_pc = "idle"
    /\ \E duration_hours \in {1, 3}, season \in {"peak", "off-peak"} :
          pr_state' = InitialState("p1", "portrait", "a", duration_hours, season)
    /\ pr_entry' = "stages"
    /\ pr_pc' = "analyze_market"
    /\ UNCHANGED <<pr_stages, pr_calls, pr_returned, outsidePricing>>

\* a stage that raised: the exception leaves the run
StageRaises(stage, call) ==
    /\ pr_pc' = "raised"
    /\ pr_stages' = Append(pr_stages, stage)
    /\ pr_calls' = pr_calls \o call
    /\ UNCHANGED <<pr_entry, pr_state, pr_returned, outsidePricing>>

\* a stage that returned its state, and the stage the edge leads to
StageReturns(stage, call, new_state, next) ==
    /\ pr_pc' = next
    /\ pr_stages' = Append(pr_stages, stage)
    /\ pr_calls' = pr_calls \o call
    /\ pr_state' = new_state
    /\ UNCHANGED <<pr_entry, pr_returned, outsidePricing>>

Query(table, store) ==
    <<[svc |-> "db", table |-> table, failed |-> store.fails, rows |-> store.rows]>>

AnalyzeMarket ==
    /\ pr_pc = "analyze_market"
    /\ \E store \in MarketStores :
         IF store.fails THEN StageRaises("analyze_market", Query("bookings", store))
         ELSE StageReturns("analyze_market", Query("bookings", store),
                           Update(pr_state, [market_data |-> MarketData(store.rows),
                                             current_step |-> "market_analyzed"]),
                           "get_competitor_prices")

\* base + hourly * duration_hours of every other photographer, if positive
CompetitorPrices(photographers, pstate) ==
    LET others == SelectSeq(photographers, LAMBDA r : r.id # pstate.photographer_id)
        estimated == [i \in 1..Len(others) |->
                        others[i].base_price + others[i].hourly_rate * pstate.duration_hours]
    IN  SelectSeq(estimated, LAMBDA e : e > 0)

\* get_competitor_prices: state["duration_hours"] is read for every other
\* photographer of the location
GetCompetitorPrices ==
    /\ pr_pc = "get_competitor_prices"
    /\ \E store \in CompetitorStores :
         IF store.fails
         THEN StageRaises("get_competitor_prices", Query("photographers", store))
         ELSE IF /\ ~HasKey(pr_state, "duration_hours")
                 /\ \E i \in 1..Len(store.rows) : store.rows[i].id # pr_state.photographer_id
         THEN StageRaises("get_competitor_prices", Query("photographers", store))
         ELSE StageReturns("get_competitor_prices", Query("photographers", store),
                  Update(pr_state,
                         [competitor_prices |-> CompetitorPrices(store.rows, pr_state),
                          current_step |-> "competitors_analyzed"]),
                  "analyze_photographer_history")

\* the photographer_history dict of analyze_photographer_history
PhotographerHistory(bookings) ==
    LET prices == FinalPrices(bookings)
        rated == SelectSeq(bookings, LAMBDA b : b.rating # 0)
        ratings == [i \in 1..Len(rated) |-> rated[i].rating]
    IN  IF bookings # <<>>
        THEN [average_price |-> IF prices # <<>> THEN Mean(prices) ELSE 0,
              average_rating |-> IF ratings # <<>> THEN Mean(ratings) ELSE 0,
              total_bookings |-> Len(bookings),
              recent_bookings |-> Len(SelectSeq(bookings, LAMBDA b : b.recent))]
        ELSE [average_price |-> 0, average_rating |-> 0, total_bookings |-> 0,
              recent_bookings |-> 0]

AnalyzePhotographerHistory ==
    /\ pr_pc = "analyze_photographer_history"
    /\ \E store \in HistoryStores :
         IF store.fails
         THEN StageRaises("analyze_photographer_history", Query("bookings", store))
         ELSE StageReturns("analyze_photographer_history", Query("bookings", store),
                  Update(pr_state,
                         [photographer_history |-> PhotographerHistory(store.rows),
                          current_step |-> "history_analyzed"]),
                  "calculate_optimal_price")

\* the completion request of calculate_optimal_price, with what the prompt
\* was given
PriceRequest(pstate, failed, completion) ==
    <<[svc |-> "llm", stage |-> "calculate_optimal_price", failed |-> failed,
       completion |-> completion,
       market_data |-> pstate.market_data,
       competitor_prices |-> pstate.competitor_prices,
       photographer_history |-> pstate.photographer_history]>>

\* calculate_optimal_price: the dict for the prompt reads state["duration_hours"]
\* before the model is asked; an exception of the completion is not caught
CalculateOptimalPrice ==
    /\ pr_pc = "calculate_optimal_price"
    /\ IF ~HasKey(pr_state, "duration_hours")
       THEN StageRaises("calculate_optimal_price", <<>>)
       ELSE \/ StageRaises("calculate_optimal_price",
                           PriceRequest(pr_state, TRUE, PyNone))
            \/ \E completion \in PriceCompletions :
                 LET suggested_price == ExtractPrice(completion.text, pr_state)
                 IN  IF suggested_price.raised
                     THEN StageRaises("calculate_optimal_price",
                                      PriceRequest(pr_state, FALSE, completion))
                     ELSE StageReturns("calculate_optimal_price",
                              PriceRequest(pr_state, FALSE, completion),
                              Update(pr_state,
                                     [suggested_price |-> suggested_price.price,
                                      current_step |-> "price_calculated"]),
                              "generate_recommendation")

ReasonRequest(failed) ==
    <<[svc |-> "llm", stage |-> "generate_recommendation", failed |-> failed]>>

\* generate_recommendation: one completion, which becomes the reasoning; the
\* edge leads to END, and process_pricing returns the final state
GenerateRecommendation ==
    /\ pr_pc = "generate_recommendation"
    /\ \/ StageRaises("generate_recommendation", ReasonRequest(TRUE))
       \/ LET final_state == Update(pr_state, [reasoning |-> "because",
                                               current_step |-> "completed"])
          IN  /\ pr_pc' = "done"
              /\ pr_stages' = Append(pr_stages, "generate_recommendation")
              /\ pr_calls' = pr_calls \o ReasonRequest(FALSE)
              /\ pr_state' = final_state
              /\ pr_returned' = IF pr_entry = "process_pricing" THEN final_state
                                ELSE pr_returned
              /\ UNCHANGED <<pr_entry, outsidePricing>>

PricingInit ==
    /\ BookingIdle /\ FunctionsIdle /\ GatewayIdle /\ ManagerIdle /\ PricingIdle
    /\ SingletonIdle

PricingNext ==
    \/ ProcessPricing
    \/ CallStages
    \/ AnalyzeMarket
    \/ GetCompetitorPrices
    \/ AnalyzePhotographerHistory
    \/ CalculateOptimalPrice
    \/ GenerateRecommendation

PricingSpec == PricingInit /\ [][PricingNext]_vars

-----------------------------------------------------------------------------
(* get_session_manager: the global instance of utils/session_manager.py     *)

outsideSingleton ==
    <<bookingVars, functionVars, gatewayVars, managerVars, pricingVars>>

Move(t, position) == getter_pc' = [getter_pc EXCEPT ![t] = position]

\* a thread calls get_session_manager()
GetSessionManager(t) ==
    /\ getter_pc[t] = "idle"
    /\ gets < MaxGets
    /\ gets' = gets + 1
    /\ Move(t, "test")
    /\ UNCHANGED <<global_session_manager, managers, getter_local, handle,
                   outsideSingleton>>

\* if _session_manager is None: no lock is taken around the test and the
\* assignment, so other threads run between them
TestGlobal(t) ==
    /\ getter_pc[t] = "test"
    /\ Move(t, IF global_session_manager = PyNone THEN "construct" ELSE "return")
    /\ UNCHANGED <<global_session_manager, managers, getter_local, handle, gets,
                   outsideSingleton>>

\* SessionManager(session_timeout_minutes=timeout_minutes): a new instance with
\* empty maps, whose __init__ starts its own cleanup thread
Construct(t) ==
    /\ getter_pc[t] = "construct"
    /\ LET instance == [by |-> t, call |-> gets]
       IN  /\ managers' = [i \in DOMAIN managers \cup {instance} |->
                              IF i = instance THEN <<>> ELSE managers[i]]
           /\ getter_local' = [getter_local EXCEPT ![t] = instance]
    /\ Move(t, "assign")
    /\ UNCHANGED <<global_session_manager, handle, gets, outsideSingleton>>

\* _session_manager = <the new instance>
AssignGlobal(t) ==
    /\ getter_pc[t] = "assign"
    /\ global_session_manager' = getter_local[t]
    /\ Move(t, "return")
    /\ UNCHANGED <<managers, getter_local, handle, gets, outsideSingleton>>

\* return _session_manager: the global is read again
ReturnGlobal(t) ==
    /\ getter_pc[t] = "return"
    /\ handle' = [handle EXCEPT ![t] = global_session_manager]
    /\ getter_local' = [getter_local EXCEPT ![t] = PyNone]
    /\ Move(t, "idle")
    /\ UNCHANGED <<global_session_manager, managers, gets, outsideSingleton>>

\* the messages added so far, over all instances
RECURSIVE CountAdded(_, _)
CountAdded(stores, instances) ==
    IF instances = {} THEN 0
    ELSE LET i == CHOOSE x \in instances : TRUE
         IN  Len(stores[i]) + CountAdded(stores, instances \ {i})

\* a thread adds a message through the handle it was given
AddThroughHandle(t) ==
    /\ getter_pc[t] = "idle"
    /\ handle[t] # PyNone
    /\ CountAdded(managers, DOMAIN managers) < MaxAdds
    /\ managers' = [managers EXCEPT ![handle[t]] =
                       Append(@, CountAdded(managers, DOMAIN managers) + 1)]
    /\ UNCHANGED <<global_session_manager, getter_pc, getter_local, handle, gets,
                   outsideSingleton>>

SingletonInit ==
    /\ BookingIdle /\ FunctionsIdle /\ GatewayIdle /\ ManagerIdle /\ PricingIdle
    /\ SingletonIdle

SingletonNext ==
    \/ \E t \in Callers : GetSessionManager(t)
    \/ \E t \in Callers : TestGlobal(t)
    \/ \E t \in Callers : Construct(t)
    \/ \E t \in Callers : AssignGlobal(t)
    \/ \E t \in Callers : ReturnGlobal(t)
    \/ \E t \in Callers : AddThroughHandle(t)

SingletonSpec == SingletonInit /\ [][SingletonNext]_vars

-----------------------------------------------------------------------------
(* Properties                                                              *)

RunEntry == entry = "handle_booking_request"

CallsTo(svc) == {i \in 1..Len(calls) : calls[i].svc = svc}

\* C1: every run of handle_booking_request ends by returning a response that
\* carries success, type and message; no exception leaves the run.
C1_RunReturnsStructuredResponse ==
    RunEntry =>
        /\ pc # "raised"
        /\ pc = "done" => {"success", "type", "message"} \subseteq DOMAIN returned

\* C2: in every run the three stages are entered once each, in order,
\* current_step ends at completed, and no external service is called twice.
C2_StagesOnceInOrder ==
    (RunEntry /\ pc \in {"done", "raised"}) =>
        /\ stages = <<"analyze_intent", "process_request", "finalize_response">>
        /\ state.current_step = "completed"
        /\ \A i, j \in 1..Len(calls) : i # j => calls[i].svc # calls[j].svc

\* the handler the claim names for an intent type
C3_HandlerNamed(intent_type) ==
    CASE intent_type \in {"direct_booking", "selection_from_options"} -> "direct_booking"
      [] intent_type = "recommendation_request" -> "recommendation"
      [] OTHER -> "unclear"

C3_OneHandler ==
    /\ Len(handlers) <= 1
    /\ pc \in {"finalize_response", "return", "done", "raised"} =>
          handlers = <<C3_HandlerNamed(state.intent.type)>>

\* C3: process_request runs exactly one handler, the one its intent type
\* selects, and finalize_response changes nothing but current_step.
C3_DispatchAndFinalize ==
    [][/\ C3_OneHandler'
       /\ pc = "finalize_response" =>
            /\ state' = [state EXCEPT !.current_step = state'.current_step]
            /\ <<session_state, calls, handlers>>' = <<session_state, calls, handlers>>
      ]_vars

C3_Witness ==
    /\ RunEntry
    /\ pc = "done"
    /\ state.intent.type = "selection_from_options"
    /\ handlers = <<"direct_booking">>
    /\ state.current_step = "completed"

\* the rank (1-based) a message selects by number, 0 when it is no number
RankSelected(message) == IF Strip(message) = <<"1">> THEN 1 ELSE 0

\* message selects stored candidate k, by its rank or by its name
SelectsCandidate(message, recommendations, k) ==
    \/ RankSelected(message) = k
    \/ Lower(Strip(message)) = Lower(recommendations[k].name)

\* C4: after a recommendation turn stored step=showing_options and the
\* candidates, the next run resolves a selection by number or by name to the
\* stored candidate.
C4_SelectionRoundTrip ==
    (/\ RunEntry
     /\ pc \in {"done", "raised"}
     /\ SessionStep(session_in) = "showing_options"
     /\ HasKey(session_in, "recommendations")) =>
        \A k \in 1..Len(session_in.recommendations) :
            SelectsCandidate(state.message, session_in.recommendations, k) =>
                /\ state.intent.type = "selection_from_options"
                /\ handlers = <<"direct_booking">>
                /\ Len(state.matches) = 1
                /\ state.matches[1].id = session_in.recommendations[k].id

\* the direct-booking handler ran and the name lookup gave exactly one match
SingleMatch == handlers = <<"direct_booking">> /\ Len(state.matches) = 1

DatePresent(requirements) ==
    "shoot_date" \in DOMAIN requirements /\ requirements.shoot_date # ""

ReportsUnavailable(result) == "available" \in DOMAIN result /\ ~result.available

\* C5: with exactly one match the booking request is for that photographer's
\* cheapest active package and follows the availability check, which is made
\* iff a shoot date is present; an unavailable verdict gives not_available
\* with the reason and neither a weather call nor a booking request.
C5_SingleMatchBooking ==
    SingleMatch =>
        LET photographer == state.matches[1]
            requirements == IntentRequirements(state.intent)
        IN  /\ (CallsTo("availability") # {}) <=> DatePresent(requirements)
            /\ \A j \in CallsTo("booking") :
                 /\ calls[j].request.photographer_id = photographer.id
                 /\ \E p \in 1..Len(photographer.packages) :
                      /\ photographer.packages[p].id = calls[j].request.package_id
                      /\ photographer.packages[p].is_active
                      /\ \A q \in 1..Len(photographer.packages) :
                           photographer.packages[p].price <= photographer.packages[q].price
                 /\ DatePresent(requirements) =>
                      \E i \in CallsTo("availability") :
                          i < j /\ ~ReportsUnavailable(calls[i].result)
            /\ IF \E i \in CallsTo("availability") : ReportsUnavailable(calls[i].result)
               THEN /\ state.response.success = FALSE
                    /\ state.response.type = "not_available"
                    /\ \A i \in CallsTo("availability") :
                         "reason" \in DOMAIN calls[i].result =>
                             state.response.reason = calls[i].result.reason
                    /\ CallsTo("weather") = {}
                    /\ CallsTo("booking") = {}
               ELSE Cardinality(CallsTo("booking")) = 1

C5_Witness ==
    /\ SingleMatch
    /\ Len(state.matches[1].packages) > 1
    /\ \E i \in CallsTo("availability"), j \in CallsTo("booking") : i < j
    /\ state.response.type = "booking_created"

\* C6: when the availability call of a date-specific booking fails and the
\* gateway returns an error payload, no booking request is sent and the
\* response is a failure.
C6_AvailabilityErrorBlocks ==
    (SingleMatch /\ \E i \in CallsTo("availability") : "error" \in DOMAIN calls[i].result) =>
        /\ CallsTo("booking") = {}
        /\ state.response.success = FALSE

AllPresentForWeather(requirements) ==
    /\ "outdoor" \in DOMAIN requirements /\ requirements.outdoor
    /\ DatePresent(requirements)
    /\ "location" \in DOMAIN requirements /\ requirements.location # <<>>

AdvisoryKeys == {"weather_warning", "weather_info", "recommendation", "weather_status"}

WithoutAdvisory(response) == [k \in DOMAIN response \ AdvisoryKeys |-> response[k]]

\* the run observed, made again with any other weather outcome and the same
\* availability and booking outcomes, sends the booking request as the
\* observed run did and answers alike, up to the advisory fields of a
\* booking_created response
WeatherNeverDecides ==
    LET av_seen == IF CallsTo("availability") = {} THEN {Unasked}
                   ELSE {calls[i].outcome : i \in CallsTo("availability")}
        b_seen  == IF CallsTo("booking") = {} THEN BookingHttp
                   ELSE {calls[j].outcome : j \in CallsTo("booking")}
    IN  \A av_http \in av_seen, b_http \in b_seen, w_http \in WeatherHttp :
            LET other == CreateBooking(state.matches[1],
                                       IntentRequirements(state.intent),
                                       state.client_id, av_http, w_http, b_http)
            IN  /\ Made(other, "booking") <=> CallsTo("booking") # {}
                /\ other.response.success = state.response.success
                /\ other.response.type = state.response.type
                /\ WithoutAdvisory(other.response) = WithoutAdvisory(state.response)
                /\ other.response.type # "booking_created" =>
                      DOMAIN other.response \cap AdvisoryKeys = {}

\* C7 as stated: the weather call is made iff outdoor, date and location are
\* all present, and the weather result never changes whether the booking is
\* sent nor the response's success and type.
C7_WeatherIffAllPresent ==
    SingleMatch =>
        /\ (CallsTo("weather") # {}) <=>
              AllPresentForWeather(IntentRequirements(state.intent))
        /\ WeatherNeverDecides

\* C7 amended: the weather call is made iff outdoor, date and location are
\* all present and the availability check did not report unavailable; the
\* weather result never changes whether the booking is sent nor the
\* response's success and type, and only adds advisory fields to a
\* booking_created response.
C7_WeatherNeverBlocks ==
    SingleMatch =>
        /\ (CallsTo("weather") # {}) <=>
              /\ AllPresentForWeather(IntentRequirements(state.intent))
              /\ ~\E i \in CallsTo("availability") : ReportsUnavailable(calls[i].result)
        /\ WeatherNeverDecides

C7_Witness ==
    /\ SingleMatch
    /\ \E i \in CallsTo("weather") :
         /\ "good_for_outdoor_shoot" \in DOMAIN calls[i].result
         /\ ~calls[i].result.good_for_outdoor_shoot
    /\ state.response.type = "booking_created"
    /\ "weather_warning" \in DOMAIN state.response

\* C8: with more than one match no booking request is sent, the session gets
\* step=clarifying_photographer with the matches and the intent, and the
\* response is multiple_matches listing id, name, location, rating and
\* specialties of each match.
C8_MultipleMatchesDisambiguate ==
    (handlers = <<"direct_booking">> /\ Len(state.matches) > 1) =>
        /\ CallsTo("booking") = {}
        /\ SessionStep(session_state) = "clarifying_photographer"
        /\ session_state.photographer_matches = state.matches
        /\ session_state.original_intent = state.intent
        /\ "type" \in DOMAIN state.response
        /\ state.response.type = "multiple_matches"
        /\ Len(state.response.options) = Len(state.matches)
        /\ \A i \in 1..Len(state.matches) :
             DOMAIN state.response.options[i] =
                {"id", "name", "location", "rating", "specialties"}

\* some active photographer of the store with an active package matches name
SomeBookableMatch(name, db) ==
    /\ ~db.fails
    /\ \E i \in 1..Len(db.rows) :
         /\ db.rows[i].is_active
         /\ \E p \in 1..Len(db.rows[i].packages) : db.rows[i].packages[p].is_active
         /\ NameMatches(name, db.rows[i])

RequestedName(intent) ==
    IF "photographer_name" \in DOMAIN intent THEN intent.photographer_name ELSE <<>>

\* C9: a direct-booking request whose name matches no active photographer
\* with an active package, or whose lookup fails, gets success=false,
\* type=photographer_not_found, suggested_action=show_recommendations, and no
\* availability, weather or booking call is made.
C9_NotFound ==
    (handlers = <<"direct_booking">>
     /\ \A i \in CallsTo("db") :
            ~SomeBookableMatch(RequestedName(state.intent), calls[i].outcome)) =>
        /\ state.response.success = FALSE
        /\ state.response.type = "photographer_not_found"
        /\ state.response.suggested_action = "show_recommendations"
        /\ CallsTo("availability") \cup CallsTo("weather") \cup CallsTo("booking") = {}

C9_Witness ==
    /\ handlers = <<"direct_booking">>
    /\ state.response = [success |-> FALSE, type |-> "photographer_not_found",
                         message |-> "couldn't find a photographer",
                         suggested_action |-> "show_recommendations"]
    /\ \E i \in CallsTo("db") :
         /\ ~calls[i].outcome.fails
         /\ \E r \in 1..Len(calls[i].outcome.rows) :
              NameMatches(RequestedName(state.intent), calls[i].outcome.rows[r])

\* C10: a non-200 reply of the booking endpoint gives backend_error, a
\* timeout or transport exception connection_error, never
\* photographer_not_found or not_available, and the request is sent once.
C10_TypedBookingFailure ==
    /\ Cardinality(CallsTo("booking")) <= 1
    /\ \A j \in CallsTo("booking") :
         LET http == calls[j].outcome
             service == CreateBackendBooking(state.client_id,
                            calls[j].request.photographer_id,
                            calls[j].request.package_id,
                            calls[j].request.requirements, http)
         IN  /\ (http.kind = "reply" /\ http.status # 200) =>
                  /\ state.response.success = FALSE
                  /\ state.response.type = "backend_error"
                  /\ service.success = FALSE /\ service.type = "backend_error"
             /\ http.kind \in {"timeout", "exception"} =>
                  /\ state.response.success = FALSE
                  /\ state.response.type = "connection_error"
                  /\ service.success = FALSE /\ service.type = "connection_error"
             /\ state.response.type \notin {"photographer_not_found", "not_available"}

C10_Witness ==
    \E j \in CallsTo("booking") :
        /\ calls[j].outcome.kind = "reply"
        /\ calls[j].outcome.status = 500
        /\ state.response.type = "backend_error"

\* the store answer the handler of this call worked on
QueriedStore == calls[CHOOSE i \in CallsTo("db") : TRUE].outcome

\* the active photographers of db that have an active package
BookablePool(db) ==
    IF db.fails THEN <<>>
    ELSE SelectSeq(QueryActivePhotographers(db), LAMBDA r : ActivePackages(r) # <<>>)

\* C11: a recommendation request over a non-empty pool of active
\* photographers with an active package stores at most 10 candidates, ordered
\* by non-increasing score, in the session with step=showing_options and
\* returns a success response of type recommendations whose options are the
\* first min(5, n) of the stored list, ranked 1..min(5, n), each with price
\* range and match reason.
C11_RecommendationsReturned ==
    (handlers = <<"recommendation">> /\ BookablePool(QueriedStore) # <<>>) =>
        /\ pc # "raised"
        /\ SessionStep(session_state) = "showing_options"
        /\ Len(session_state.recommendations) <= 10
        /\ \A i \in 1..(Len(session_state.recommendations) - 1) :
             ~FracLess(session_state.recommendations[i].match_score,
                       session_state.recommendations[i + 1].match_score)
        /\ \A i \in 1..Len(session_state.recommendations) :
             session_state.recommendations[i].match_score.num > 0
        /\ "type" \in DOMAIN state.response
        /\ state.response.success = TRUE
        /\ state.response.type = "recommendations"
        /\ Len(state.response.options) =
             Len(FirstN(session_state.recommendations, 5))
        /\ \A i \in 1..Len(state.response.options) :
             /\ state.response.options[i].rank = i
             /\ state.response.options[i].id = session_state.recommendations[i].id
             /\ {"price_range", "match_reason"} \subseteq
                    DOMAIN state.response.options[i]

\* C12: a recommendation request over an empty pool (no active photographer
\* has an active package, or the query of the store fails) returns
\* success=false with type=no_matches, and no exception leaves the handler.
C12_EmptyPoolNoMatches ==
    (handlers = <<"recommendation">> /\ BookablePool(QueriedStore) = <<>>) =>
        /\ pc # "raised"
        /\ "type" \in DOMAIN state.response
        /\ state.response.success = FALSE
        /\ state.response.type = "no_matches"
        /\ state.matches = <<>>
        /\ session_state = session_in

C12_Witness ==
    /\ handlers = <<"recommendation">>
    /\ QueriedStore.fails
    /\ QueriedStore.rows # <<>>
    /\ state.response.type = "no_matches"

\* the session step the run started with
StartStep == SessionStep(session_in)

\* C13: a run that starts with step=showing_options makes no LLM call and
\* sets the intent to selection_from_options with the stripped message as
\* photographer_name; a run that starts with any other step (or none) asks
\* for exactly one LLM completion.
C13_LlmBypassedOnlyWhenShowingOptions ==
    (RunEntry /\ pc # "analyze_intent") =>
        IF StartStep = "showing_options"
        THEN /\ CallsTo("llm") = {}
             /\ state.intent.type = "selection_from_options"
             /\ state.intent.photographer_name = Strip(state.message)
        ELSE Cardinality(CallsTo("llm")) = 1

Ids(matches) == {matches[i].id : i \in 1..Len(matches)}

\* name with its case changed or whitespace added or removed around it
SameNameAs(name) ==
    {other \in LookupNames : Strip(Lower(other)) = Strip(Lower(name))}

\* C17: _find_photographers_by_name returns the same set of ids when the
\* case of the name is changed or whitespace is added around it, and every
\* active photographer with an active package whose full name equals the
\* name, case-insensitively, is among the matches.
C17_LookupIgnoresCaseAndPadding ==
    applied.fn = "_find_photographers_by_name" =>
        /\ \A other \in SameNameAs(applied.name) :
             Ids(FindPhotographersByName(other, applied.db)) = Ids(fn_result)
        /\ ~applied.db.fails =>
             \A i \in 1..Len(applied.db.rows) :
                LET row == applied.db.rows[i]
                IN  (/\ row.is_active
                     /\ ActivePackages(row) # <<>>
                     /\ Lower(applied.name) = FullName(row)) => row.id \in Ids(fn_result)

\* the score of the photographer of the call, had the rating been another
ScoreWithRating(rating) ==
    CalculateMatchScore([applied.row EXCEPT !.rating = rating], applied.requirements,
                        applied.photographer_min_price, applied.pool_min_price,
                        applied.pool_max_price)

\* C18: with price, pool prices, location and packages fixed the match score
\* does not decrease when the rating increases, and it is never above 100.
C18_ScoreMonotoneInRatingAndCapped ==
    applied.fn = "_calculate_match_score_with_price_context" =>
        /\ fn_result.num <= 100 * fn_result.den
        /\ \A rating \in 0..MaxRating :
             rating >= applied.row.rating =>
                ~FracLess(ScoreWithRating(rating), fn_result)

C18_Witness ==
    /\ applied.fn = "_calculate_match_score_with_price_context"
    /\ applied.row.rating > 50
    /\ LocationMatches(applied.row, applied.requirements)
    /\ fn_result.num = 100 * fn_result.den

\* the server named in the call is configured in the client called
Configured ==
    IF gw_call.client = "service" THEN gw_call.server \in BaseUrls
    ELSE gw_call.server \in Servers

\* C14: a call of either client never raises; a server that is not configured
\* gets an error payload without any HTTP request, and for a configured
\* server every non-2xx reply, timeout or exception of the exchange is
\* returned as a payload with an error field.
C14_GatewayNeverRaises ==
    /\ gw_pc # "raised"
    /\ (gw_pc = "returned" /\ ~Configured) =>
          /\ HasKey(gw_result, "error")
          /\ gw_requests = <<>>
    /\ (gw_pc = "returned" /\ HasKey(gw_call, "http")) =>
          ((gw_call.http.kind = "reply" => ~IsSuccess(gw_call.http.status))
              => HasKey(gw_result, "error"))

\* thread t is about to return from get_session_history with a result
GetReturns(t) ==
    /\ thread_pc[t] = "release"
    /\ thread_local[t].op = "get_session_history"
    /\ HasKey(thread_local[t], "result")

\* C15: get_session_history(s) returns every message whose add_message(s, m)
\* has returned with no clear_session(s) or eviction of s since, and the
\* messages of s in the order their appends took effect, whatever the other
\* threads and the sweep do.
C15_ReadAfterWrite ==
    \A t \in Callers :
        GetReturns(t) =>
            LET history == thread_local[t].result
                session_id == thread_local[t].session_id
            IN  /\ history = effect[session_id]
                /\ \A message \in acked[session_id] :
                     \E i \in 1..Len(history) : history[i] = message

C15_Witness ==
    \E t \in Callers :
        /\ GetReturns(t)
        /\ Len(thread_local[t].result) = 2
        /\ Cardinality(acked[thread_local[t].session_id]) = 2
        /\ thread_local[t].result[1].content < thread_local[t].result[2].content

\* the sweep has deleted what it listed and is about to return
SweepReturns == thread_pc[Cleanup] = "release"

\* C16: every thread that is at a read or write of the session maps holds the
\* lock, so no two are inside at once; and a sweep removes exactly the sessions
\* whose last activity is older than the timeout, leaving the others as they
\* were.
C16_LockedAndExactEviction ==
    /\ \A t \in Threads : thread_pc[t] \in InsideLock => lock = t
    /\ \A t, u \in Threads :
         (thread_pc[t] \in InsideLock /\ thread_pc[u] \in InsideLock) => t = u
    /\ SweepReturns =>
         LET seen == thread_local[Cleanup].seen
             at == thread_local[Cleanup].at
             old == {s \in DOMAIN seen : at - seen[s] > TimeoutMinutes}
         IN  /\ DOMAIN sessions = DOMAIN seen \ old
             /\ DOMAIN last_activity = DOMAIN sessions
             /\ DOMAIN session_metadata = DOMAIN sessions
             /\ \A s \in DOMAIN sessions :
                  /\ last_activity[s] = seen[s]
                  /\ at - last_activity[s] <= TimeoutMinutes

C16_Witness ==
    /\ SweepReturns
    /\ DOMAIN sessions # {}
    /\ DOMAIN thread_local[Cleanup].seen \ DOMAIN sessions # {}
    /\ \E t \in Callers : thread_pc[t] = "acquire"

\* the completion request of calculate_optimal_price in this run
PriceCalls ==
    {i \in 1..Len(pr_calls) :
        pr_calls[i].svc = "llm" /\ pr_calls[i].stage = "calculate_optimal_price"}

\* calculate_optimal_price has just returned
PriceCalculated == pr_pc = "generate_recommendation"

\* C19: the suggested price is the first number of the completion when that
\* lies in [50, 10000]; without a number, or with one out of range, it is the
\* market average when the market sample is non-empty, and otherwise
\* 200 x duration_hours (600 for 3 hours).
C19_PriceFallbackChain ==
    PriceCalculated =>
        \A i \in PriceCalls :
            LET number == pr_calls[i].completion.first_number
                market == pr_state.market_data
            IN  IF number.found /\ 5000 <= number.price /\ number.price <= 1000000
                THEN pr_state.suggested_price = number.price
                ELSE IF market.sample_size > 0
                THEN pr_state.suggested_price = market.average_price
                ELSE /\ pr_state.suggested_price = 20000 * pr_state.duration_hours
                     /\ pr_state.duration_hours = 3 => pr_state.suggested_price = 60000

C19_Witness ==
    /\ PriceCalculated
    /\ \E i \in PriceCalls : ~pr_calls[i].completion.first_number.found
    /\ pr_state.market_data.sample_size = 0
    /\ pr_state.duration_hours = 3
    /\ pr_state.suggested_price = 60000

\* no query and no completion of the run failed
NoCallFailed == \A i \in 1..Len(pr_calls) : ~pr_calls[i].failed

\* C20: a run of process_pricing enters the five stages once each, in order,
\* calculate_optimal_price is given the market data, competitor prices and
\* history of the same run, and the run ends with current_step = completed.
C20_FiveStagesToCompleted ==
    (pr_entry = "process_pricing" /\ pr_pc \in {"done", "raised"} /\ NoCallFailed) =>
        /\ pr_pc = "done"
        /\ pr_stages = <<"analyze_market", "get_competitor_prices",
                         "analyze_photographer_history", "calculate_optimal_price",
                         "generate_recommendation">>
        /\ pr_state.current_step = "completed"
        /\ \A i \in PriceCalls :
             /\ pr_calls[i].market_data = pr_state.market_data
             /\ pr_calls[i].competitor_prices = pr_state.competitor_prices
             /\ pr_calls[i].photographer_history = pr_state.photographer_history

\* the query of analyze_market was answered with these rows
MarketAnswered == pr_calls # <<>> /\ ~pr_calls[1].failed

NoPricedBooking(rows) == \A i \in 1..Len(rows) : rows[i].final_price = 0

ZeroMarket ==
    [average_price |-> 0, median_price |-> 0, min_price |-> 0, max_price |-> 0,
     sample_size |-> 0]

\* C21: when the query of completed bookings gives no row, or only rows
\* without a price, analyze_market returns (it does not raise) and market_data
\* is average, median, min and max 0 with sample_size 0.
C21_NoBookingsZeroMarket ==
    (MarketAnswered /\ NoPricedBooking(pr_calls[1].rows)) =>
        /\ pr_state.market_data = ZeroMarket
        /\ Len(pr_calls) = 1 => pr_pc = "get_competitor_prices"

C21_Witness ==
    /\ MarketAnswered
    /\ pr_calls[1].rows # <<>>
    /\ NoPricedBooking(pr_calls[1].rows)
    /\ pr_pc = "get_competitor_prices"
    /\ pr_state.market_data.sample_size = 0

\* the field of the pricing state a stage owns
OwnedField(stage) ==
    CASE stage = "analyze_market" -> "market_data"
      [] stage = "get_competitor_prices" -> "competitor_prices"
      [] stage = "analyze_photographer_history" -> "photographer_history"
      [] stage = "calculate_optimal_price" -> "suggested_price"
      [] stage = "generate_recommendation" -> "reasoning"

\* the stage that ran in this step
StageOfStep == pr_stages'[Len(pr_stages')]

\* C26: a stage of the pricing workflow writes its own field and current_step
\* and nothing else: every other key of the state, the request inputs and the
\* fields of earlier stages included, has the value it had when the stage was
\* entered, and no key appears or disappears.
C26_StagesWriteOwnFieldOnly ==
    [][pr_stages' # pr_stages =>
        /\ DOMAIN pr_state' = DOMAIN pr_state
        /\ \A k \in DOMAIN pr_state \ {OwnedField(StageOfStep), "current_step"} :
             pr_state'[k] = pr_state[k]]_vars

C26_Witness ==
    /\ pr_pc = "done"
    /\ Len(pr_stages) = 5
    /\ pr_state.market_data.sample_size > 0
    /\ pr_state.competitor_prices # <<>>
    /\ pr_state.photographer_history.total_bookings > 0
    /\ pr_state.suggested_price > 0
    /\ pr_state.reasoning # ""
    /\ pr_state.duration_hours = 3

ReasonGiven == applied.fn = "_generate_match_reason"

\* the reasons of the match_reason just generated
Reasons == {fn_result[i] : i \in 1..Len(fn_result)}

PriceTags == {"lowest price", "great value", "competitive pricing"}

\* the phrase starts with the label of the score and has no second label
LabelOfScore ==
    /\ fn_result[1] = (IF FracAtLeast(applied.score, 80) THEN "Excellent match"
                       ELSE IF FracAtLeast(applied.score, 60) THEN "Good match"
                       ELSE "Potential match")
    /\ \A i \in 2..Len(fn_result) :
         fn_result[i] \notin {"Excellent match", "Good match", "Potential match"}

AtMostOnePriceTag ==
    Cardinality({i \in 1..Len(fn_result) : fn_result[i] \in PriceTags}) <= 1

\* C22 as stated: "lowest price" is among the reasons whenever the
\* photographer's minimum price equals the pool minimum; the phrase starts with
\* exactly one score label and holds at most one price tag.
C22_LowestPriceAtPoolMinimum ==
    ReasonGiven =>
        /\ applied.photographer_price = applied.pool_min_price =>
             "lowest price" \in Reasons
        /\ LabelOfScore
        /\ AtMostOnePriceTag

\* C22 amended: "lowest price" is among the reasons whenever the photographer's
\* minimum price equals the pool minimum and that price is above 0; with a
\* price of 0 no price tag is given. The label and the single price tag are as
\* stated.
C22_LowestPriceAtPositivePoolMinimum ==
    ReasonGiven =>
        /\ (applied.photographer_price = applied.pool_min_price
            /\ applied.pool_min_price > 0) => "lowest price" \in Reasons
        /\ applied.photographer_price = 0 => Reasons \cap PriceTags = {}
        /\ LabelOfScore
        /\ AtMostOnePriceTag

C22_Witness ==
    /\ ReasonGiven
    /\ applied.photographer_price = 100
    /\ applied.pool_min_price = 100
    /\ fn_result = <<"Excellent match", "highly rated", "lowest price", "local photographer">>

\* the completion holds a JSON object written with ordinary braces
HasJsonObject(content) == Contains(<<"{", "J", "}">>, content)

\* the completion holds no brace at all
HasNoBrace(content) == \A i \in 1..Len(content) : content[i] \notin {"{", "}"}

\* C23: when the completion holds a JSON object in ordinary braces, possibly
\* inside other text, the intent is that object plus original_message; when
\* the call raises or the completion holds no object the intent is
\* {type: unclear, original_message}.
C23_JsonObjectBecomesIntent ==
    applied.fn = "analyze_intent" =>
        IF applied.llm.raises THEN fn_result = Unclear(applied.message)
        ELSE /\ HasJsonObject(applied.llm.content) =>
                  fn_result = Update(applied.llm.payload,
                                     [original_message |-> applied.message])
             /\ HasNoBrace(applied.llm.content) => fn_result = Unclear(applied.message)

\* the call has ended with a response of this type
EndedWith(type) ==
    /\ pc = "done"
    /\ HasKey(state.response, "type")
    /\ state.response.type = type

\* C24: a turn that starts in step showing_options or clarifying_photographer
\* and ends with a booking_created response leaves the session in another
\* step, so that the next message is classified afresh.
C24_StepResolvedAfterBooking ==
    (/\ EndedWith("booking_created")
     /\ SessionStep(session_in) \in {"showing_options", "clarifying_photographer"})
        => SessionStep(session_state) # SessionStep(session_in)

\* the response of the run, once a handler has stored one, has this type
Responded(types) == HasKey(state.response, "type") /\ state.response.type \in types

\* the clarification prompt, with its two example phrasings
ClarificationPrompt ==
    [success |-> FALSE, type |-> "need_clarification",
     message |-> "You can either:",
     options |-> <<"name a photographer", "describe what you need">>,
     examples |-> <<"I want to book Sarah Johnson", "I need a wedding photographer">>]

\* C25: a run whose response is need_clarification, photographer_not_found or
\* no_matches leaves the session state as it was at run start, and the
\* need_clarification response is the same fixed prompt for every input.
C25_DeclinedRunsLeaveSession ==
    /\ Responded({"need_clarification", "photographer_not_found", "no_matches"})
          => session_state = session_in
    /\ Responded({"need_clarification"}) => state.response = ClarificationPrompt

C25_Witness ==
    /\ EndedWith("need_clarification")
    /\ entry = "handle_booking_request"
    /\ turn = 2
    /\ HasKey(session_in, "photographer_matches")
    /\ session_state = session_in
    /\ returned = ClarificationPrompt

\* the run has changed the session's step to this one
StepSetTo(step) ==
    SessionStep(session_state) = step /\ session_state # session_in

\* C27: once a run has ended, the session is in step showing_options by that
\* run's doing only if the run returned recommendations, in step
\* clarifying_photographer only if it returned multiple_matches, and a run that
\* ended in an exception has left the session as it was at run start.
C27_SessionChangedOnlyWithResponse ==
    pc \in {"done", "raised"} =>
        /\ StepSetTo("showing_options") => EndedWith("recommendations")
        /\ StepSetTo("clarifying_photographer") => EndedWith("multiple_matches")
        /\ pc = "raised" => session_state = session_in

\* the photographers of the pool whose full name is the name, whatever the case
CarryName(name, db) ==
    {i \in 1..Len(BookablePool(db)) : FullName(BookablePool(db)[i]) = Lower(name)}

\* C28: when the requested name is the full name of exactly one active
\* photographer with an active package, the direct-booking handler goes on to
\* the booking of that photographer whatever else is in the pool, and does
\* not ask which photographer was meant.
C28_ExactNameBooksThatPhotographer ==
    handlers = <<"direct_booking">> =>
        LET name == RequestedName(state.intent)
            carriers == CarryName(name, QueriedStore)
        IN  Cardinality(carriers) = 1 =>
                /\ Len(state.matches) = 1
                /\ state.matches[1].id =
                      BookablePool(QueriedStore)[CHOOSE i \in carriers : TRUE].id
                /\ SessionStep(session_state) = "clarifying_photographer"
                      => session_state = session_in

\* the three maps hold the same session ids
SameSessionIds ==
    /\ DOMAIN sessions = DOMAIN session_metadata
    /\ DOMAIN sessions = DOMAIN last_activity

Known(s) == s \in DOMAIN sessions \cup DOMAIN session_metadata \cup DOMAIN last_activity

\* every key a thread is about to subscript or delete is there, and no
\* thread has met KeyError
NoMissingKey ==
    /\ \A t \in Threads : ~HasKey(thread_local[t], "raised")
    /\ \A t \in Callers :
         /\ thread_pc[t] \in {"add_append", "get_read"} =>
               thread_local[t].session_id \in DOMAIN sessions
         /\ (thread_pc[t] = "clear_del" /\ thread_local[t].session_id \in DOMAIN sessions) =>
               thread_local[t].session_id \in
                   DOMAIN session_metadata \cap DOMAIN last_activity
    /\ thread_pc[Cleanup] = "sweep_delete" =>
         thread_local[Cleanup].inactive_sessions \subseteq
             DOMAIN sessions \cap DOMAIN session_metadata

\* thread t takes the step of its method that decides the result
Decides(t, position) == thread_pc[t] = position /\ thread_pc'[t] = "release"

\* get_session_history of an id that is in no map: [] and still in no map
GetOfUnknown(t) ==
    (Decides(t, "get_check") /\ ~Known(thread_local[t].session_id)) =>
        /\ thread_local'[t].result = <<>>
        /\ <<sessions, session_metadata, last_activity>>' =
              <<sessions, session_metadata, last_activity>>

\* clear_session: True exactly when the session was there, and gone after
ClearOfSession(t) ==
    Decides(t, "clear_del") =>
        /\ thread_local'[t].result = (thread_local[t].session_id \in DOMAIN sessions)
        /\ ~Known(thread_local[t].session_id)'

\* C29: whenever no thread is inside a method body the three maps hold the
\* same session ids, and no operation meets a missing key; get_session_history
\* of an unknown id returns [] and creates nothing; clear_session returns True
\* exactly when the session existed.
C29_MapsAgreeOnSessionIds ==
    /\ [](lock = NoThread => SameSessionIds)
    /\ []NoMissingKey
    /\ [][\A t \in Callers : GetOfUnknown(t) /\ ClearOfSession(t)]_vars

C29_Witness ==
    \E t, u \in Callers :
        /\ thread_pc[t] = "release"
        /\ thread_local[t].op = "clear_session"
        /\ thread_local[t].result = TRUE
        /\ thread_pc[u] = "acquire"
        /\ thread_local[u].op = "get_session_history"
        /\ thread_local[u].session_id = thread_local[t].session_id
        /\ thread_pc[Cleanup] = "acquire"

\* the handles the threads hold
Handles == {handle[t] : t \in Callers} \ {PyNone}

\* C30: at most one SessionManager, and so one cleanup thread, is ever
\* constructed, every caller of get_session_manager is given the same
\* instance, and the messages added through one handle are those seen through
\* every other.
C30_OneSessionManager ==
    /\ Cardinality(DOMAIN managers) <= 1
    /\ Cardinality(Handles) <= 1
    /\ \A h, k \in Handles : managers[h] = managers[k]

====
